---- MODULE Spec2Model ----
(***************************************************************************)
(* Model of the lazorkit smart-wallet program: the passkey authorization   *)
(* pipeline (utils.rs, state/message.rs), the four authorised handlers     *)
(* (instructions/execute/*.rs), and the commit / execute_committed pair    *)
(* (instructions/execute/chunk/*.rs).                                      *)
(*                                                                         *)
(* Conventions.  A byte string is a sequence of tokens, each token a       *)
(* string standing for a fixed number of bytes (Width).  A Pubkey is one   *)
(* 32-byte token.  SHA-256 is modelled as collision free: the digest of a  *)
(* byte string is that byte string under a tag.  A handler is an operator  *)
(* from the account state and the instruction to an outcome                *)
(* [result, post, trace]; the runtime commits post only when result is Ok  *)
(* and otherwise leaves every account as it was.                           *)
(***************************************************************************)
EXTENDS Integers, Sequences, FiniteSets, TLC

VARIABLES
    last_nonce,      \* SmartWallet.last_nonce, per wallet
    policy_program,  \* SmartWallet.policy_program, per wallet
    lamports,        \* lamports of the wallet PDAs and of the other accounts
    devices,         \* the WalletDevice accounts
    sessions,        \* the live CpiCommit / TransactionSession accounts
    config,          \* the Config singleton
    registry,        \* PolicyProgramRegistry.programs
    wallet_id,       \* SmartWallet.wallet_id per wallet address, -1: no wallet
    now,             \* Clock::get().unix_timestamp
    last,            \* history: the most recent instruction and its outcome
    used,            \* history: <<wallet, nonce>> of every authorised success
    performed,       \* history: session keys whose CPI / transfer was performed
    committed,       \* history: wallet, nonce and address of every session created
    tampered,        \* history: number of tampered instructions that returned Ok
    pf               \* harness of the pure-function specifications

vars == <<last_nonce, policy_program, lamports, devices, sessions, config,
          registry, wallet_id, now, last, used, performed, committed, tampered,
          pf>>

-----------------------------------------------------------------------------
(* Bounds of the model *)

\* u64 narrowed: the largest nonce value, standing for u64::MAX
U64_MAX == 2
\* number of clock steps explored
MaxTicks == 1
\* number of tampered instructions that return Ok along one run
MaxTampered == 1
\* i64 narrowed: the largest timestamp value, standing for i64::MAX
I64_MAX == 4000

I64_MIN == -I64_MAX - 1

-----------------------------------------------------------------------------
(* Program constants *)

MAX_TIMESTAMP_DRIFT_SECONDS == 30
MAX_CPI_DATA_SIZE == 1024
MAX_RULE_DATA_SIZE == 1024
MAX_REMAINING_ACCOUNTS == 32
SECP_HEADER_SIZE == 14
SECP_PUBKEY_SIZE == 33
SECP_SIGNATURE_SIZE == 64
SECP_HEADER_TOTAL == 16
SECP_DATA_START == 2 + SECP_HEADER_SIZE

PROGRAM_ID == "lazorkit"
SECP256R1_ID == "Secp256r1SigVerify"
SYSTEM_PROGRAM_ID == "system_program"
SOL_TRANSFER_DISCRIMINATOR == "xfer"

-----------------------------------------------------------------------------
(* Bytes *)

\* number of bytes a token stands for
Width(tok) ==
    CASE tok \in {"check_policy", "check_rule", "destroy", "init_policy",
                  "add_device", "check_polic_", "ix_disc"} -> 8
      [] tok = SOL_TRANSFER_DISCRIMINATOR -> 4
      [] tok \in {"amt0", "amt1", "amt2", "amt3"} -> 8
      [] tok = "blob1024" -> 1024
      [] tok = "authenticator_data" -> 37
      [] OTHER -> 1

RECURSIVE ByteLen(_)
ByteLen(data) ==
    IF data = <<>> THEN 0 ELSE Width(Head(data)) + ByteLen(Tail(data))

\* u64::from_le_bytes on an 8-byte token
U64FromLeBytes(tok) ==
    CASE tok = "amt0" -> 0
      [] tok = "amt1" -> 1
      [] tok = "amt2" -> 2
      [] tok = "amt3" -> 3

\* first 8 bytes of SHA-256("<namespace>:<name>")
sighash(namespace, name) == name

\* data.get(0..8) == Some(&disc)
StartsWith8(data, disc) ==
    /\ Len(data) >= 1
    /\ Width(data[1]) = 8
    /\ data[1] = disc

\* a digest that does not depend on its input
Sha256_Const(bytes) == <<"sha256", <<>>>>

\* solana_program::hash::hash, and Hasher fed the same bytes piecewise
Sha256(bytes) == <<"sha256", bytes>>

-----------------------------------------------------------------------------
(* Accounts and the binding hashes *)

Acct(k, s, w) == [key |-> k, is_signer |-> s, is_writable |-> w]

Flag(b) == IF b THEN "1" ELSE "0"

\* rh.hash(key); rh.hash(&[is_signer as u8]); rh.hash(&[is_writable as u8])
RECURSIVE MetaBytesSignerWritable(_)
MetaBytesSignerWritable(accts) ==
    IF accts = <<>> THEN <<>>
    ELSE <<Head(accts).key, Flag(Head(accts).is_signer),
           Flag(Head(accts).is_writable)>>
         \o MetaBytesSignerWritable(Tail(accts))

\* rh.hash(key); rh.hash(&[is_writable as u8, is_signer as u8])
RECURSIVE MetaBytesWritableSigner(_)
MetaBytesWritableSigner(accts) ==
    IF accts = <<>> THEN <<>>
    ELSE <<Head(accts).key, Flag(Head(accts).is_writable),
           Flag(Head(accts).is_signer)>>
         \o MetaBytesWritableSigner(Tail(accts))

\* ch.hash(key); ch.hash(&[is_signer as u8])
RECURSIVE MetaBytesSigner(_)
MetaBytesSigner(accts) ==
    IF accts = <<>> THEN <<>>
    ELSE <<Head(accts).key, Flag(Head(accts).is_signer)>>
         \o MetaBytesSigner(Tail(accts))

\* the accounts hash with is_writable left out
ExecAccountsHash_NoWritable(program, accts) ==
    Sha256(<<program>> \o MetaBytesSigner(accts))

\* accounts hash of execute_transaction, invoke_policy and update_policy
ExecAccountsHash(program, accts) ==
    Sha256(<<program>> \o MetaBytesSignerWritable(accts))

\* accounts hash of commit_cpi over the rule accounts
CommitAccountsHash(program, accts) ==
    Sha256(<<program>> \o MetaBytesWritableSigner(accts))

\* the committed hash with the account list left out
CommittedAccountsHash_ProgramOnly(program, accts) == Sha256(<<program>>)

\* accounts hash of execute_committed / execute_session_transaction
CommittedAccountsHash(program, accts) ==
    Sha256(<<program>> \o MetaBytesSigner(accts))

\* the accounts the runtime marks executable
Executable(key) ==
    key \in {"default_policy", "policy_a", "policy_b", "unregistered_policy",
             "target_program", SYSTEM_PROGRAM_ID, PROGRAM_ID, SECP256R1_ID}

-----------------------------------------------------------------------------
(* Signature verifier: utils.rs *)

Passkey(prefix, body) == [prefix |-> prefix, body |-> body]

\* the message a WebAuthn authenticator signs
SignedMessage(authenticator_data_raw, client_data_json_raw) ==
    [auth |-> authenticator_data_raw,
     client_hash |-> Sha256(client_data_json_raw)]

MsgLen(message) == ByteLen(message.auth) + 32

SecpOffsets(msg_len) ==
    [pubkey_offset |-> SECP_DATA_START,
     sig_offset |-> SECP_DATA_START + SECP_PUBKEY_SIZE,
     msg_offset |-> SECP_DATA_START + SECP_PUBKEY_SIZE + SECP_SIGNATURE_SIZE,
     msg_len |-> msg_len]

\* 0xFFFF: "the data is in this instruction"
U16_MAX == 65535

verify_secp_header(data, offsets) ==
    /\ data.num_signatures = 1
    /\ data.signature_offset = offsets.sig_offset
    /\ data.signature_instruction_index = U16_MAX
    /\ data.public_key_offset = offsets.pubkey_offset
    /\ data.public_key_instruction_index = U16_MAX
    /\ data.message_data_offset = offsets.msg_offset
    /\ data.message_data_size = offsets.msg_len
    /\ data.message_instruction_index = U16_MAX

\* the data comparison with the signature left out
verify_secp_data_NoSig(data, public_key, signature, message) ==
    /\ data.pubkey = public_key
    /\ data.msg = message

verify_secp_data(data, public_key, signature, message) ==
    /\ data.pubkey = public_key
    /\ data.sig = signature
    /\ data.msg = message

verify_secp256r1_data(data, public_key, message, signature) ==
    IF ~verify_secp_header(data, SecpOffsets(MsgLen(message)))
    THEN "Secp256r1HeaderMismatch"
    ELSE IF ~verify_secp_data(data, public_key, signature, message)
    THEN "Secp256r1DataMismatch"
    ELSE "Ok"

verify_secp256r1_instruction(ix, pubkey, msg, sig) ==
    LET expected_len ==
            SECP_DATA_START + SECP_PUBKEY_SIZE + SECP_SIGNATURE_SIZE + MsgLen(msg)
    IN  IF \/ ix.program_id # SECP256R1_ID
           \/ ix.accounts # <<>>
           \/ ix.data.len # expected_len
        THEN "Secp256r1InvalidLength"
        ELSE verify_secp256r1_data(ix.data, pubkey, msg, sig)

\* the precompile instruction a client builds for (pubkey, sig, message)
SecpIx(pubkey, sig, message) ==
    [program_id |-> SECP256R1_ID,
     accounts |-> <<>>,
     data |-> [len |-> SECP_HEADER_TOTAL + SECP_PUBKEY_SIZE
                        + SECP_SIGNATURE_SIZE + MsgLen(message),
               num_signatures |-> 1,
               signature_offset |-> SECP_DATA_START + SECP_PUBKEY_SIZE,
               signature_instruction_index |-> U16_MAX,
               public_key_offset |-> SECP_DATA_START,
               public_key_instruction_index |-> U16_MAX,
               message_data_offset |-> SECP_DATA_START + SECP_PUBKEY_SIZE
                                        + SECP_SIGNATURE_SIZE,
               message_data_size |-> MsgLen(message),
               message_instruction_index |-> U16_MAX,
               pubkey |-> pubkey,
               sig |-> sig,
               msg |-> message]]

-----------------------------------------------------------------------------
(* Nonce and freshness guard: state/message.rs *)

saturating_sub(a, b) == IF a - b < I64_MIN THEN I64_MIN ELSE a - b
saturating_add(a, b) == IF a + b > I64_MAX THEN I64_MAX ELSE a + b

\* number of borsh fields of each message type
FieldCount(variant) ==
    CASE variant = "Execute" -> 6
      [] variant = "InvokePolicy" -> 5
      [] variant = "UpdatePolicy" -> 6

\* AnchorDeserialize::deserialize reads a prefix of the bytes
Deserializes(variant, challenge_bytes) ==
    Len(challenge_bytes) >= FieldCount(variant)

\* the first byte of a SHA-256 value: 0 and 1 for the data whose last byte is
\* named z0 and z1, anything else (2) for the other data of the model
HashFirstByte(h) ==
    LET data == h[2]
    IN  IF data = <<>> THEN 2
        ELSE IF data[Len(data)] = "z0" THEN 0
        ELSE IF data[Len(data)] = "z1" THEN 1
        ELSE 2

\* borsh Option<[u8; 33]> read where a longer record has a hash: the tag byte
\* must be 0 or 1 (the 33 bytes of a Some are there, two hashes being 64)
OptionParses(challenge_bytes) ==
    \/ Len(challenge_bytes) <= FieldCount("InvokePolicy")
    \/ HashFirstByte(challenge_bytes[FieldCount("InvokePolicy")]) \in {0, 1}

\* Message::verify without the nonce comparison
MessageVerify_AnyNonce(variant, challenge_bytes, nonce, clock) ==
    IF ~Deserializes(variant, challenge_bytes)
    THEN "ChallengeDeserializationError"
    ELSE IF challenge_bytes[2]
              < saturating_sub(clock, MAX_TIMESTAMP_DRIFT_SECONDS)
    THEN "TimestampTooOld"
    ELSE IF challenge_bytes[2]
              > saturating_add(clock, MAX_TIMESTAMP_DRIFT_SECONDS)
    THEN "TimestampTooNew"
    ELSE "Ok"

\* Message::verify with the window's two ends excluded
MessageVerify_Strict(variant, challenge_bytes, nonce, clock) ==
    IF ~Deserializes(variant, challenge_bytes)
    THEN "ChallengeDeserializationError"
    ELSE IF challenge_bytes[2]
              <= saturating_sub(clock, MAX_TIMESTAMP_DRIFT_SECONDS)
    THEN "TimestampTooOld"
    ELSE IF challenge_bytes[2]
              >= saturating_add(clock, MAX_TIMESTAMP_DRIFT_SECONDS)
    THEN "TimestampTooNew"
    ELSE IF challenge_bytes[1] # nonce
    THEN "NonceMismatch"
    ELSE "Ok"

\* impl_message_verify!: Message::verify
MessageVerify(variant, challenge_bytes, nonce, clock) ==
    IF ~Deserializes(variant, challenge_bytes)
    THEN "ChallengeDeserializationError"
    ELSE LET hdr == [nonce |-> challenge_bytes[1],
                     current_timestamp |-> challenge_bytes[2]]
         IN  IF hdr.current_timestamp
                  < saturating_sub(clock, MAX_TIMESTAMP_DRIFT_SECONDS)
             THEN "TimestampTooOld"
             ELSE IF hdr.current_timestamp
                       > saturating_add(clock, MAX_TIMESTAMP_DRIFT_SECONDS)
             THEN "TimestampTooNew"
             ELSE IF hdr.nonce # nonce
             THEN "NonceMismatch"
             ELSE "Ok"

-----------------------------------------------------------------------------
(* Authorization verifier: utils.rs verify_authorization *)

\* clientDataJSON: what from_utf8, serde_json, ["challenge"] and base64 yield
ClientDataJson(kind, challenge_bytes) ==
    [kind |-> kind, challenge |-> challenge_bytes]

ParseClientData(cdj) ==
    CASE cdj.kind = "bad_utf8" -> "ClientDataInvalidUtf8"
      [] cdj.kind = "bad_json" -> "ClientDataJsonParseError"
      [] cdj.kind = "no_challenge" -> "ChallengeMissing"
      [] cdj.kind = "bad_base64" -> "ChallengeBase64DecodeError"
      [] OTHER -> "Ok"

\* load_instruction_at_checked(index, ix_sysvar): a 0-based index
InstructionLoads(ixs, index) == index + 1 \in DOMAIN ixs
\* an authorization that never compares the device's wallet
verify_authorization_AnyWallet(variant, ixs, device, smart_wallet_key, args, nonce, clock) ==
    LET passkey_pubkey == args.passkey_pubkey
        signature == args.signature
        client_data_json_raw == args.client_data_json_raw
        authenticator_data_raw == args.authenticator_data_raw
        verify_instruction_index == args.verify_instruction_index
    IN
    IF device.passkey_pubkey # passkey_pubkey THEN "PasskeyMismatch" ELSE
    IF ~InstructionLoads(ixs, verify_instruction_index)
    THEN "InvalidArgument" ELSE
    IF ParseClientData(client_data_json_raw) # "Ok"
    THEN ParseClientData(client_data_json_raw) ELSE
    LET secp_ix == ixs[verify_instruction_index + 1]
        message == SignedMessage(authenticator_data_raw, client_data_json_raw)
        secp == verify_secp256r1_instruction(secp_ix, device.passkey_pubkey,
                                            message, signature)
    IN  IF secp # "Ok" THEN secp
        ELSE MessageVerify(variant, client_data_json_raw.challenge, nonce, clock)

\* `args` carries passkey_pubkey, signature, client_data_json_raw,
\* authenticator_data_raw and verify_instruction_index
verify_authorization(variant, ixs, device, smart_wallet_key, args, nonce, clock) ==
    LET passkey_pubkey == args.passkey_pubkey
        signature == args.signature
        client_data_json_raw == args.client_data_json_raw
        authenticator_data_raw == args.authenticator_data_raw
        verify_instruction_index == args.verify_instruction_index
    IN
    IF device.passkey_pubkey # passkey_pubkey THEN "PasskeyMismatch" ELSE
    IF device.smart_wallet # smart_wallet_key THEN "SmartWalletMismatch" ELSE
    IF ~InstructionLoads(ixs, verify_instruction_index)
    THEN "InvalidArgument" ELSE
    IF ParseClientData(client_data_json_raw) # "Ok"
    THEN ParseClientData(client_data_json_raw) ELSE
    LET secp_ix == ixs[verify_instruction_index + 1]
        message == SignedMessage(authenticator_data_raw, client_data_json_raw)
        secp == verify_secp256r1_instruction(secp_ix, device.passkey_pubkey,
                                            message, signature)
    IN  IF secp # "Ok" THEN secp
        ELSE MessageVerify(variant, client_data_json_raw.challenge, nonce, clock)

-----------------------------------------------------------------------------
(* Accounts of the program *)

Wallets == {"w1", "w2"}

\* WalletDevice address: PDA of (prefix, wallet, SHA-256(passkey || wallet))
DevicePda(wallet, passkey) ==
    CASE wallet = "w1" /\ passkey = Passkey(2, "k1") -> "dev_w1_k1"
      [] wallet = "w1" /\ passkey = Passkey(3, "k2") -> "dev_w1_k2"
      [] wallet = "w2" /\ passkey = Passkey(3, "k2") -> "dev_w2_k2"
      [] wallet = "w2" /\ passkey = Passkey(2, "k1") -> "dev_w2_k1"
      [] OTHER -> "dev_unused"

WalletDevice(wallet, passkey) ==
    [key |-> DevicePda(wallet, passkey),
     passkey_pubkey |-> passkey,
     smart_wallet |-> wallet]

\* a session address that leaves the nonce out
SessionPda_PerWallet(wallet, nonce) == <<wallet, 0>>

\* CpiCommit address: PDA of (prefix, wallet, last_nonce.to_le_bytes())
SessionPda(wallet, nonce) == <<wallet, nonce>>

\* Rent::get()?.minimum_balance(0), in model lamports
RENT_EXEMPT_MINIMUM == 1
\* rent of a CpiCommit account, in model lamports
SESSION_RENT == 1

\* the state the handlers read and write, as one record
State ==
    [last_nonce |-> last_nonce, policy_program |-> policy_program,
     lamports |-> lamports, devices |-> devices, sessions |-> sessions,
     config |-> config, registry |-> registry, wallet_id |-> wallet_id,
     now |-> now]

InRegistry(programs, program) == \E i \in DOMAIN programs : programs[i] = program

\* a registry that lets every program through
check_whitelist_Open(programs, program) == "Ok"

\* utils.rs check_whitelist
check_whitelist(programs, program) ==
    IF InRegistry(programs, program) THEN "Ok" ELSE "PolicyProgramNotRegistered"

\* an addition that returns its first operand
checked_add_Stuck(a, b) == a

\* u64::checked_add: the sum, or -1 for None
checked_add(a, b) == IF a + b > U64_MAX THEN -1 ELSE a + b

\* an increment that wraps round to 0
NextNonce_Wrapping(n) == (n + 1) % (U64_MAX + 1)

\* last_nonce.checked_add(1): the next nonce, or -1 for None
NextNonce(n) == checked_add(n, 1)

-----------------------------------------------------------------------------
(* Outcomes *)

Event(kind, program, data, accounts, ok) ==
    [kind |-> kind, program |-> program, data |-> data,
     accounts |-> accounts, ok |-> ok]

Merge(f, g) == [k \in DOMAIN f \cup DOMAIN g |->
                   IF k \in DOMAIN g THEN g[k] ELSE f[k]]

Fail(error, trace) == [result |-> error, trace |-> trace]

Done(post, trace) == [result |-> "Ok", post |-> post, trace |-> trace]

-----------------------------------------------------------------------------
(* security.rs validation, instructions/execute/args.rs *)

validate_remaining_accounts(accounts) ==
    IF Len(accounts) <= MAX_REMAINING_ACCOUNTS THEN "Ok"
    ELSE "TooManyRemainingAccounts"

validate_rule_data(rule_data) ==
    IF ByteLen(rule_data) <= MAX_RULE_DATA_SIZE THEN "Ok" ELSE "RuleDataTooLarge"

validate_cpi_data(cpi_data) ==
    IF ByteLen(cpi_data) > MAX_CPI_DATA_SIZE THEN "CpiDataTooLarge"
    ELSE IF cpi_data = <<>> THEN "CpiDataMissing"
    ELSE "Ok"

validate_lamport_amount(amount) ==
    IF amount <= U64_MAX \div 2 THEN "Ok" ELSE "TransferAmountOverflow"

\* impl_args_validate!
ArgsValidate(args) ==
    IF args.passkey_pubkey.prefix \notin {2, 3} THEN "InvalidPasskeyFormat" ELSE
    IF args.signature.len # 64 THEN "InvalidSignature" ELSE
    IF args.client_data_json_raw.kind = "empty" THEN "InvalidInstructionData" ELSE
    IF args.authenticator_data_raw = <<>> THEN "InvalidInstructionData" ELSE
    IF ~(args.verify_instruction_index < 255) THEN "InvalidInstructionData"
    ELSE "Ok"

\* a CPI whose error is dropped
execute_cpi_Swallow(callee_ok, callee_error) == "Ok"

\* a CPI whose result is never looked at
execute_cpi_Unchecked(callee_ok, callee_error) == "Ok"

\* utils.rs execute_cpi: invoke / invoke_signed, the callee's error propagated
execute_cpi(callee_ok, callee_error) == IF callee_ok THEN "Ok" ELSE callee_error

\* utils.rs split_remaining_accounts
SplitOk(accounts, split_index) == split_index <= Len(accounts)

\* a transfer that credits the destination and debits nobody
transfer_sol_from_pda_Mint(lam, from, to, amount) ==
    [result |-> "Ok", lamports |-> [lam EXCEPT ![to] = @ + amount]]

\* utils.rs transfer_sol_from_pda: the lamports after, or an error
transfer_sol_from_pda(lam, from, to, amount) ==
    IF amount = 0 THEN [result |-> "Ok", lamports |-> lam]
    ELSE IF lam[from] < amount
    THEN [result |-> "InsufficientLamports", lamports |-> lam]
    ELSE [result |-> "Ok",
          lamports |-> [lam EXCEPT ![from] = @ - amount, ![to] = @ + amount]]

\* the native-transfer-or-CPI branch shared by execute_transaction and
\* execute_committed: [result, lamports, trace]
PerformCpi(s, wallet, cpi_program, cpi_data, cpi_accounts, cpi_ok) ==
    IF /\ Len(cpi_data) >= 1
       /\ cpi_data[1] = SOL_TRANSFER_DISCRIMINATOR
       /\ cpi_program = SYSTEM_PROGRAM_ID
    THEN
        IF Len(cpi_accounts) < 2
        THEN [result |-> "SolTransferInsufficientAccounts", trace |-> <<>>] ELSE
        IF ByteLen(cpi_data) < 12
        THEN [result |-> "InvalidCpiData", trace |-> <<>>] ELSE
        LET amount == U64FromLeBytes(cpi_data[2])
            destination == cpi_accounts[2].key
            fee_sum == checked_add(amount, s.config.execute_fee)
            total_needed == IF fee_sum = -1 THEN -1
                            ELSE checked_add(fee_sum, RENT_EXEMPT_MINIMUM)
            moved == transfer_sol_from_pda(s.lamports, wallet, destination, amount)
        IN  IF validate_lamport_amount(amount) # "Ok"
            THEN [result |-> validate_lamport_amount(amount), trace |-> <<>>] ELSE
            IF destination = wallet
            THEN [result |-> "InvalidAccountData", trace |-> <<>>] ELSE
            IF total_needed = -1
            THEN [result |-> "IntegerOverflow", trace |-> <<>>] ELSE
            IF s.lamports[wallet] < total_needed
            THEN [result |-> "InsufficientLamports", trace |-> <<>>] ELSE
            IF moved.result # "Ok"
            THEN [result |-> moved.result, trace |-> <<>>]
            ELSE [result |-> "Ok", lamports |-> moved.lamports,
                  trace |-> <<Event("transfer", cpi_program, cpi_data,
                                    cpi_accounts, TRUE)>>]
    ELSE
        IF ~Executable(cpi_program)
        THEN [result |-> "ProgramNotExecutable", trace |-> <<>>] ELSE
        IF cpi_program = PROGRAM_ID
        THEN [result |-> "ReentrancyDetected", trace |-> <<>>] ELSE
        IF cpi_accounts = <<>>
        THEN [result |-> "InsufficientCpiAccounts", trace |-> <<>>] ELSE
        IF execute_cpi(cpi_ok, "CpiError") # "Ok"
        THEN [result |-> execute_cpi(cpi_ok, "CpiError"),
              trace |-> <<Event("user_cpi", cpi_program, cpi_data,
                                cpi_accounts, FALSE)>>]
        ELSE [result |-> "Ok", lamports |-> s.lamports,
              trace |-> <<Event("user_cpi", cpi_program, cpi_data,
                                cpi_accounts, TRUE)>>]

-----------------------------------------------------------------------------
(* instructions/execute/execute_transaction.rs *)

DeviceAt(s, key) == CHOOSE d \in s.devices : d.key = key

SubSeqFrom(seq, from) == SubSeq(seq, from, Len(seq))

\* #[derive(Accounts)] ExecuteTransaction: checked before the handler runs
ExecuteTransactionAccounts(s, r) ==
    IF r.smart_wallet \notin Wallets THEN "ConstraintSeeds" ELSE
    IF ~(\E d \in s.devices : d.key = r.wallet_device)
    THEN "AccountNotInitialized" ELSE
    IF ~Executable(r.policy_program) THEN "ConstraintExecutable" ELSE
    IF ~Executable(r.cpi_program) THEN "ConstraintExecutable"
    ELSE "Ok"

execute_transaction(s, r) ==
    LET args == r.args
        wallet == r.smart_wallet
        accounts == ExecuteTransactionAccounts(s, r)
        auth == verify_authorization("Execute", r.ixs,
                    DeviceAt(s, r.wallet_device), wallet, args,
                    s.last_nonce[wallet], s.now)
        msg == [policy_data_hash |-> args.client_data_json_raw.challenge[3],
                policy_accounts_hash |-> args.client_data_json_raw.challenge[4],
                cpi_data_hash |-> args.client_data_json_raw.challenge[5],
                cpi_accounts_hash |-> args.client_data_json_raw.challenge[6]]
        policy_accounts == SubSeq(r.remaining_accounts, 1, args.split_index)
        cpi_accounts == SubSeqFrom(r.remaining_accounts, args.split_index + 1)
        policy_event(ok) == Event("policy_cpi", r.policy_program,
                                  args.policy_data, policy_accounts, ok)
        cpi == PerformCpi(s, wallet, r.cpi_program, args.cpi_data,
                          cpi_accounts, r.env.cpi_ok)
        bumped == NextNonce(s.last_nonce[wallet])
    IN
    IF accounts # "Ok" THEN Fail(accounts, <<>>) ELSE
    IF ArgsValidate(args) # "Ok" THEN Fail(ArgsValidate(args), <<>>) ELSE
    IF s.config.is_paused THEN Fail("ProgramPaused", <<>>) ELSE
    IF validate_remaining_accounts(r.remaining_accounts) # "Ok"
    THEN Fail("TooManyRemainingAccounts", <<>>) ELSE
    IF auth # "Ok" THEN Fail(auth, <<>>) ELSE
    IF ~Executable(r.policy_program) THEN Fail("ProgramNotExecutable", <<>>) ELSE
    IF check_whitelist(s.registry, r.policy_program) # "Ok"
    THEN Fail("PolicyProgramNotRegistered", <<>>) ELSE
    IF r.policy_program # s.policy_program[wallet]
    THEN Fail("InvalidProgramAddress", <<>>) ELSE
    IF ~SplitOk(r.remaining_accounts, args.split_index)
    THEN Fail("AccountSliceOutOfBounds", <<>>) ELSE
    IF policy_accounts = <<>> THEN Fail("InsufficientPolicyAccounts", <<>>) ELSE
    IF ~StartsWith8(args.policy_data, sighash("global", "check_policy"))
    THEN Fail("InvalidCheckPolicyDiscriminator", <<>>) ELSE
    IF validate_rule_data(args.policy_data) # "Ok"
    THEN Fail("PolicyDataTooLarge", <<>>) ELSE
    IF Sha256(args.policy_data) # msg.policy_data_hash
    THEN Fail("InvalidInstructionData", <<>>) ELSE
    IF ExecAccountsHash(r.policy_program, policy_accounts)
           # msg.policy_accounts_hash
    THEN Fail("InvalidAccountData", <<>>) ELSE
    IF execute_cpi(r.env.policy_ok, "PolicyError") # "Ok"
    THEN Fail(execute_cpi(r.env.policy_ok, "PolicyError"),
              <<policy_event(FALSE)>>) ELSE
    IF validate_cpi_data(args.cpi_data) # "Ok"
    THEN Fail(validate_cpi_data(args.cpi_data), <<policy_event(r.env.policy_ok)>>) ELSE
    IF Sha256(args.cpi_data) # msg.cpi_data_hash
    THEN Fail("InvalidInstructionData", <<policy_event(r.env.policy_ok)>>) ELSE
    IF ExecAccountsHash(r.cpi_program, cpi_accounts) # msg.cpi_accounts_hash
    THEN Fail("InvalidAccountData", <<policy_event(r.env.policy_ok)>>) ELSE
    IF cpi.result # "Ok"
    THEN Fail(cpi.result, <<policy_event(r.env.policy_ok)>> \o cpi.trace) ELSE
    IF bumped = -1
    THEN Fail("NonceOverflow", <<policy_event(r.env.policy_ok)>> \o cpi.trace)
    ELSE Done([s EXCEPT !.lamports = cpi.lamports,
                        !.last_nonce[wallet] = bumped],
              <<policy_event(r.env.policy_ok)>> \o cpi.trace)

-----------------------------------------------------------------------------
(* state/smart_wallet_authenticator.rs init, as the handlers call it *)

\* rent of a WalletDevice account, in model lamports
DEVICE_RENT == 1

NoDevice == [some |-> FALSE, passkey_pubkey |-> Passkey(0, "none")]
NewDevice(passkey) == [some |-> TRUE, passkey_pubkey |-> passkey]

KeyHoldsData(s, key) ==
    \/ \E d \in s.devices : d.key = key
    \/ key \in Wallets

\* the optional enrolment of invoke_policy and update_policy:
\* [result, devices, lamports].  WalletDevice::init signs create_account with
\* the seeds of the derived address; the system program accepts the new
\* account when it is that address or when it signed the transaction itself.
EnrolDevice(s, r) ==
    LET new_authenticator == r.args.new_authenticator
        new_auth == r.remaining_accounts[1].key
        derived == WalletDevice(r.smart_wallet, new_authenticator.passkey_pubkey)
        created == [derived EXCEPT !.key = new_auth]
    IN  IF ~new_authenticator.some
        THEN [result |-> "Ok", devices |-> s.devices, lamports |-> s.lamports] ELSE
        IF new_authenticator.passkey_pubkey.prefix \notin {2, 3}
        THEN [result |-> "InvalidPasskeyFormat"] ELSE
        IF r.remaining_accounts = <<>>
        THEN [result |-> "InvalidRemainingAccounts"] ELSE
        IF KeyHoldsData(s, new_auth)
        THEN [result |-> "AccountAlreadyInitialized"] ELSE
        IF new_auth # derived.key /\ ~r.remaining_accounts[1].is_signer
        THEN [result |-> "MissingRequiredSignature"] ELSE
        IF s.lamports[r.payer] < DEVICE_RENT
        THEN [result |-> "InsufficientFundsForRent"]
        ELSE [result |-> "Ok",
              devices |-> s.devices \cup {created},
              lamports |-> [s.lamports EXCEPT ![r.payer] = @ - DEVICE_RENT]]

-----------------------------------------------------------------------------
(* instructions/execute/invoke_policy.rs *)

\* #[derive(Accounts)] InvokePolicy
InvokePolicyAccounts(s, r) ==
    IF r.smart_wallet \notin Wallets THEN "ConstraintSeeds" ELSE
    IF ~(\E d \in s.devices : d.key = r.wallet_device)
    THEN "AccountNotInitialized" ELSE
    IF ~Executable(r.policy_program) THEN "ConstraintExecutable"
    ELSE "Ok"

invoke_policy(s, r) ==
    LET args == r.args
        wallet == r.smart_wallet
        accounts == InvokePolicyAccounts(s, r)
        verified == verify_authorization("InvokePolicy", r.ixs,
                        DeviceAt(s, r.wallet_device), wallet, args,
                        s.last_nonce[wallet], s.now)
        \* the Option of the message is deserialized with the header
        auth == IF /\ verified \in {"Ok", "TimestampTooOld", "TimestampTooNew",
                                     "NonceMismatch"}
                   /\ ~OptionParses(args.client_data_json_raw.challenge)
                THEN "ChallengeDeserializationError"
                ELSE verified
        msg == [policy_data_hash |-> args.client_data_json_raw.challenge[3],
                policy_accounts_hash |-> args.client_data_json_raw.challenge[4],
                new_passkey |-> args.client_data_json_raw.challenge[5]]
        start_idx == IF args.new_authenticator.some THEN 1 ELSE 0
        policy_accs == SubSeqFrom(r.remaining_accounts, start_idx + 1)
        enrol == EnrolDevice(s, r)
        policy_event(ok) == Event("policy_cpi", r.policy_program,
                                  args.policy_data, policy_accs, ok)
        bumped == NextNonce(s.last_nonce[wallet])
    IN
    IF accounts # "Ok" THEN Fail(accounts, <<>>) ELSE
    IF ArgsValidate(args) # "Ok" THEN Fail(ArgsValidate(args), <<>>) ELSE
    IF s.config.is_paused THEN Fail("ProgramPaused", <<>>) ELSE
    IF validate_remaining_accounts(r.remaining_accounts) # "Ok"
    THEN Fail("TooManyRemainingAccounts", <<>>) ELSE
    IF ~Executable(r.policy_program) THEN Fail("ProgramNotExecutable", <<>>) ELSE
    IF r.policy_program # s.policy_program[wallet]
    THEN Fail("InvalidProgramAddress", <<>>) ELSE
    IF check_whitelist(s.registry, r.policy_program) # "Ok"
    THEN Fail("PolicyProgramNotRegistered", <<>>) ELSE
    IF validate_rule_data(args.policy_data) # "Ok"
    THEN Fail("PolicyDataTooLarge", <<>>) ELSE
    IF auth # "Ok" THEN Fail(auth, <<>>) ELSE
    IF Sha256(args.policy_data) # msg.policy_data_hash
    THEN Fail("InvalidInstructionData", <<>>) ELSE
    IF start_idx > Len(r.remaining_accounts)
    THEN Fail("SliceIndexPanic", <<>>) ELSE
    IF ExecAccountsHash(r.policy_program, policy_accs)
           # msg.policy_accounts_hash
    THEN Fail("InvalidAccountData", <<>>) ELSE
    IF enrol.result # "Ok" THEN Fail(enrol.result, <<>>) ELSE
    IF execute_cpi(r.env.policy_ok, "PolicyError") # "Ok"
    THEN Fail(execute_cpi(r.env.policy_ok, "PolicyError"),
              <<policy_event(FALSE)>>) ELSE
    IF bumped = -1 THEN Fail("NonceOverflow", <<policy_event(r.env.policy_ok)>>)
    ELSE Done([s EXCEPT !.devices = enrol.devices,
                        !.lamports = enrol.lamports,
                        !.last_nonce[wallet] = bumped],
              <<policy_event(r.env.policy_ok)>>)

-----------------------------------------------------------------------------
(* instructions/execute/update_policy.rs *)

\* "enforce default policy transition": one side is the default policy
DefaultPolicyTransition_Any(default_policy, old, new) == TRUE

DefaultPolicyTransition(default_policy, old, new) ==
    old = default_policy \/ new = default_policy

\* an assignment that goes straight to the account's bytes
SerializedWallet_WriteThrough(s, wallet, assigned) == assigned

\* smart_wallet_data is a Box<Account<SmartWallet>>: an assignment changes the
\* deserialized copy, and the account's bytes keep the value of the state the
\* instruction started in until the handler has returned Ok
SerializedWallet(s, wallet, assigned) == s.policy_program[wallet]

\* #[derive(Accounts)] UpdatePolicy
UpdatePolicyAccounts(s, r) ==
    IF r.smart_wallet \notin Wallets THEN "ConstraintSeeds" ELSE
    IF ~(\E d \in s.devices : d.key = r.wallet_device)
    THEN "AccountNotInitialized" ELSE
    IF ~Executable(r.old_policy_program) THEN "ConstraintExecutable" ELSE
    IF ~Executable(r.new_policy_program) THEN "ConstraintExecutable"
    ELSE "Ok"

update_policy(s, r) ==
    LET args == r.args
        wallet == r.smart_wallet
        accounts == UpdatePolicyAccounts(s, r)
        auth == verify_authorization("UpdatePolicy", r.ixs,
                    DeviceAt(s, r.wallet_device), wallet, args,
                    s.last_nonce[wallet], s.now)
        msg == [old_policy_data_hash |-> args.client_data_json_raw.challenge[3],
                old_policy_accounts_hash |->
                    args.client_data_json_raw.challenge[4],
                new_policy_data_hash |-> args.client_data_json_raw.challenge[5],
                new_policy_accounts_hash |->
                    args.client_data_json_raw.challenge[6]]
        split == args.split_index
        rest == IF args.new_authenticator.some
                THEN SubSeqFrom(r.remaining_accounts, 2)
                ELSE r.remaining_accounts
        destroy_accounts == SubSeq(rest, 1, split)
        init_accounts == SubSeqFrom(rest, split + 1)
        enrol == EnrolDevice(s, r)
        \* line 129 assigns the deserialized struct before the CPIs; the
        \* account's bytes are rewritten from it only when the handler exits
        during == [smart_wallet_data |-> r.new_policy_program,
                   account_data |->
                       SerializedWallet(s, wallet, r.new_policy_program)]
        destroy_event(ok) ==
            Merge(Event("destroy_cpi", r.old_policy_program,
                        args.destroy_policy_data, destroy_accounts, ok), during)
        init_event(ok) ==
            Merge(Event("init_cpi", r.new_policy_program,
                        args.init_policy_data, init_accounts, ok), during)
        bumped == NextNonce(s.last_nonce[wallet])
    IN
    IF accounts # "Ok" THEN Fail(accounts, <<>>) ELSE
    IF ArgsValidate(args) # "Ok" THEN Fail(ArgsValidate(args), <<>>) ELSE
    IF s.config.is_paused THEN Fail("ProgramPaused", <<>>) ELSE
    IF validate_remaining_accounts(r.remaining_accounts) # "Ok"
    THEN Fail("TooManyRemainingAccounts", <<>>) ELSE
    IF ~Executable(r.old_policy_program) \/ ~Executable(r.new_policy_program)
    THEN Fail("ProgramNotExecutable", <<>>) ELSE
    IF check_whitelist(s.registry, r.old_policy_program) # "Ok"
    THEN Fail("PolicyProgramNotRegistered", <<>>) ELSE
    IF check_whitelist(s.registry, r.new_policy_program) # "Ok"
    THEN Fail("PolicyProgramNotRegistered", <<>>) ELSE
    IF s.policy_program[wallet] # r.old_policy_program
    THEN Fail("InvalidProgramAddress", <<>>) ELSE
    IF r.old_policy_program = r.new_policy_program
    THEN Fail("PolicyProgramsIdentical", <<>>) ELSE
    IF validate_rule_data(args.destroy_policy_data) # "Ok"
       \/ validate_rule_data(args.init_policy_data) # "Ok"
    THEN Fail("PolicyDataTooLarge", <<>>) ELSE
    IF auth # "Ok" THEN Fail(auth, <<>>) ELSE
    IF ~SplitOk(r.remaining_accounts, split)
    THEN Fail("AccountSliceOutOfBounds", <<>>) ELSE
    IF args.new_authenticator.some
       /\ (r.remaining_accounts = <<>> \/ split > Len(rest))
    THEN Fail("SliceIndexPanic", <<>>) ELSE
    IF ExecAccountsHash(r.old_policy_program, destroy_accounts)
           # msg.old_policy_accounts_hash
    THEN Fail("InvalidAccountData", <<>>) ELSE
    IF ExecAccountsHash(r.new_policy_program, init_accounts)
           # msg.new_policy_accounts_hash
    THEN Fail("InvalidAccountData", <<>>) ELSE
    IF ~StartsWith8(args.destroy_policy_data, sighash("global", "destroy"))
    THEN Fail("InvalidDestroyDiscriminator", <<>>) ELSE
    IF ~StartsWith8(args.init_policy_data, sighash("global", "init_policy"))
    THEN Fail("InvalidInitPolicyDiscriminator", <<>>) ELSE
    IF Sha256(args.destroy_policy_data) # msg.old_policy_data_hash
    THEN Fail("InvalidInstructionData", <<>>) ELSE
    IF Sha256(args.init_policy_data) # msg.new_policy_data_hash
    THEN Fail("InvalidInstructionData", <<>>) ELSE
    IF ~DefaultPolicyTransition(s.config.default_policy_program,
                                r.old_policy_program, r.new_policy_program)
    THEN Fail("NoDefaultPolicyProgram", <<>>) ELSE
    IF enrol.result # "Ok" THEN Fail(enrol.result, <<>>) ELSE
    IF execute_cpi(r.env.destroy_ok, "PolicyError") # "Ok"
    THEN Fail(execute_cpi(r.env.destroy_ok, "PolicyError"),
              <<destroy_event(FALSE)>>) ELSE
    IF execute_cpi(r.env.init_ok, "PolicyError") # "Ok"
    THEN Fail(execute_cpi(r.env.init_ok, "PolicyError"),
              <<destroy_event(r.env.destroy_ok), init_event(FALSE)>>) ELSE
    IF bumped = -1
    THEN Fail("NonceOverflow", <<destroy_event(r.env.destroy_ok), init_event(r.env.init_ok)>>)
    ELSE Done([s EXCEPT !.devices = enrol.devices,
                        !.lamports = enrol.lamports,
                        !.policy_program[wallet] = r.new_policy_program,
                        !.last_nonce[wallet] = bumped],
              <<destroy_event(r.env.destroy_ok), init_event(r.env.init_ok)>>)

-----------------------------------------------------------------------------
(* instructions/execute/chunk/commit_cpi.rs *)

SessionAt(s, key) == CHOOSE c \in s.sessions : c.key = key

\* #[derive(Accounts)] CommitCpi, `init` of cpi_commit included:
\* [result, lamports]
CommitCpiAccounts(s, r) ==
    LET wallet == r.smart_wallet
        expected == SessionPda(wallet, s.last_nonce[wallet])
    IN  IF wallet \notin Wallets THEN [result |-> "ConstraintSeeds"] ELSE
        IF ~(\E d \in s.devices : d.key = r.wallet_device)
        THEN [result |-> "AccountNotInitialized"] ELSE
        IF r.cpi_commit # expected THEN [result |-> "ConstraintSeeds"] ELSE
        IF \E c \in s.sessions : c.key = r.cpi_commit
        THEN [result |-> "AccountAlreadyInUse"] ELSE
        IF s.lamports[r.payer] < SESSION_RENT
        THEN [result |-> "InsufficientFundsForRent"] ELSE
        IF r.wallet_device # DevicePda(wallet, r.args.passkey_pubkey)
        THEN [result |-> "ConstraintSeeds"] ELSE
        IF DeviceAt(s, r.wallet_device).smart_wallet # wallet
        THEN [result |-> "SmartWalletMismatch"] ELSE
        IF DeviceAt(s, r.wallet_device).passkey_pubkey # r.args.passkey_pubkey
        THEN [result |-> "PasskeyMismatch"] ELSE
        IF ~Executable(r.policy_program)
        THEN [result |-> "ConstraintExecutable"]
        ELSE [result |-> "Ok",
              lamports |-> [s.lamports EXCEPT ![r.payer] = @ - SESSION_RENT]]

commit_cpi(s, r) ==
    LET args == r.args
        wallet == r.smart_wallet
        accounts == CommitCpiAccounts(s, r)
        auth == verify_authorization("Execute", r.ixs,
                    DeviceAt(s, r.wallet_device), wallet, args,
                    s.last_nonce[wallet], s.now)
        msg == [rule_data_hash |-> args.client_data_json_raw.challenge[3],
                rule_accounts_hash |-> args.client_data_json_raw.challenge[4],
                cpi_data_hash |-> args.client_data_json_raw.challenge[5],
                cpi_accounts_hash |-> args.client_data_json_raw.challenge[6]]
        rule_accounts == r.remaining_accounts
        rule_event(ok) == Event("policy_cpi", r.policy_program,
                                args.rule_data, rule_accounts, ok)
        commit == [key |-> r.cpi_commit,
                   owner_wallet |-> wallet,
                   target_program |-> "unset",
                   data_hash |-> msg.cpi_data_hash,
                   accounts_hash |-> msg.cpi_accounts_hash,
                   authorized_nonce |-> s.last_nonce[wallet],
                   expires_at |-> args.expires_at,
                   rent_refund_to |-> r.payer,
                   lamports |-> SESSION_RENT]
        bumped == NextNonce(s.last_nonce[wallet])
    IN
    IF accounts.result # "Ok" THEN Fail(accounts.result, <<>>) ELSE
    IF validate_remaining_accounts(r.remaining_accounts) # "Ok"
    THEN Fail("TooManyRemainingAccounts", <<>>) ELSE
    IF validate_rule_data(args.rule_data) # "Ok"
    THEN Fail("RuleDataTooLarge", <<>>) ELSE
    IF s.config.is_paused THEN Fail("ProgramPaused", <<>>) ELSE
    IF auth # "Ok" THEN Fail(auth, <<>>) ELSE
    IF ~Executable(r.policy_program) THEN Fail("ProgramNotExecutable", <<>>) ELSE
    IF r.policy_program # s.policy_program[wallet]
    THEN Fail("InvalidProgramAddress", <<>>) ELSE
    IF check_whitelist(s.registry, r.policy_program) # "Ok"
    THEN Fail("PolicyProgramNotRegistered", <<>>) ELSE
    IF Sha256(args.rule_data) # msg.rule_data_hash
    THEN Fail("InvalidInstructionData", <<>>) ELSE
    IF CommitAccountsHash(r.policy_program, rule_accounts)
           # msg.rule_accounts_hash
    THEN Fail("InvalidAccountData", <<>>) ELSE
    IF ~StartsWith8(args.rule_data, sighash("global", "check_rule"))
    THEN Fail("InvalidCheckRuleDiscriminator", <<>>) ELSE
    IF execute_cpi(r.env.policy_ok, "PolicyError") # "Ok"
    THEN Fail(execute_cpi(r.env.policy_ok, "PolicyError"),
              <<rule_event(FALSE)>>) ELSE
    IF bumped = -1 THEN Fail("NonceOverflow", <<rule_event(r.env.policy_ok)>>)
    ELSE Done([s EXCEPT !.lamports = accounts.lamports,
                        !.sessions = @ \cup {commit},
                        !.last_nonce[wallet] = bumped],
              <<rule_event(r.env.policy_ok)>>)

-----------------------------------------------------------------------------
(* instructions/execute/chunk/execute_committed.rs *)

\* #[derive(Accounts)] ExecuteCommitted
ExecuteCommittedAccounts(s, r) ==
    IF r.smart_wallet \notin Wallets THEN "ConstraintSeeds" ELSE
    IF ~(\E c \in s.sessions : c.key = r.cpi_commit)
    THEN "AccountNotInitialized" ELSE
    IF r.commit_refund # SessionAt(s, r.cpi_commit).rent_refund_to
    THEN "ConstraintAddress"
    ELSE "Ok"

\* a close that drops the account and pays nobody
CloseCommit_NoRefund(s, commit, commit_refund) ==
    [s EXCEPT !.sessions = @ \ {commit}]

\* `close = commit_refund`, run when the handler returns Ok
CloseCommit(s, commit, commit_refund) ==
    [s EXCEPT !.sessions = @ \ {commit},
              !.lamports[commit_refund] = @ + commit.lamports]

execute_committed(s, r) ==
    LET cpi_data == r.args.cpi_data
        cpi_accounts == r.remaining_accounts
        wallet == r.smart_wallet
        accounts == ExecuteCommittedAccounts(s, r)
        commit == SessionAt(s, r.cpi_commit)
        graceful == Done(CloseCommit(s, commit, r.commit_refund), <<>>)
        cpi == PerformCpi(s, wallet, r.cpi_program, cpi_data, cpi_accounts,
                          r.env.cpi_ok)
        bumped == NextNonce(s.last_nonce[wallet])
    IN
    IF accounts # "Ok" THEN Fail(accounts, <<>>) ELSE
    IF validate_remaining_accounts(cpi_accounts) # "Ok" THEN graceful ELSE
    IF commit.expires_at < s.now THEN graceful ELSE
    IF commit.owner_wallet # wallet THEN graceful ELSE
    IF ~Executable(r.cpi_program) THEN graceful ELSE
    IF Sha256(cpi_data) # commit.data_hash THEN graceful ELSE
    IF CommittedAccountsHash(r.cpi_program, cpi_accounts) # commit.accounts_hash
    THEN graceful ELSE
    IF cpi.result # "Ok" THEN Fail(cpi.result, cpi.trace) ELSE
    IF bumped = -1 THEN Fail("NonceOverflow", cpi.trace)
    ELSE Done(CloseCommit([s EXCEPT !.lamports = cpi.lamports,
                                    !.last_nonce[wallet] = bumped],
                          commit, r.commit_refund),
              cpi.trace)

-----------------------------------------------------------------------------
(* The transactions explored: what a client signs, and what is submitted *)

K1 == Passkey(2, "k1")
K2 == Passkey(3, "k2")

AUTH_DATA == <<"authenticator_data">>

\* an ECDSA signature by the holder of `body` over `message`
Sign(body, message, salt) ==
    [len |-> 64, signer |-> body, msg |-> message, salt |-> salt]

\* the secp256r1 precompile: the runtime fails the whole transaction when a
\* self-contained signature record does not verify
PrecompilesPass(ixs) ==
    \A i \in DOMAIN ixs :
        (/\ ixs[i].program_id = SECP256R1_ID
         /\ ixs[i].data.num_signatures = 1
         /\ ixs[i].data.signature_instruction_index = U16_MAX
         /\ ixs[i].data.public_key_instruction_index = U16_MAX
         /\ ixs[i].data.message_instruction_index = U16_MAX)
        => /\ ixs[i].data.sig.signer = ixs[i].data.pubkey.body
           /\ ixs[i].data.sig.msg = ixs[i].data.msg

\* the wallet program's own instruction, as the instructions sysvar shows it
EngineIx == [program_id |-> PROGRAM_ID, accounts |-> <<"payer">>]

\* the wallet_id a wallet address is derived from: seeds
\* [SMART_WALLET_SEED, wallet_id.to_le_bytes()]
WalletIdOf(wallet) == IF wallet = "w1" THEN 1 ELSE 2

WalletPda(id) == IF id = 1 THEN "w1" ELSE IF id = 2 THEN "w2" ELSE "w0"

OtherPolicy(program) ==
    IF program = "default_policy" THEN "policy_a" ELSE "default_policy"

SetAcct(accts, i, a) == [accts EXCEPT ![i] = a]

\* what the user approves: a native transfer or a CPI into target_program
CpiProgramOf(intent) ==
    IF intent.kind = "transfer" THEN SYSTEM_PROGRAM_ID
    ELSE IF intent.kind = "reenter" THEN PROGRAM_ID
    ELSE "target_program"

CpiDataOf(intent) ==
    IF intent.kind = "transfer"
    THEN <<SOL_TRANSFER_DISCRIMINATOR, intent.amount>>
    ELSE IF "payload" \in DOMAIN intent
    THEN <<"ix_disc", intent.payload>>
    ELSE <<"ix_disc", "b0">>

CpiAccountsOf(w) == <<Acct(w, FALSE, TRUE), Acct("dest", FALSE, TRUE)>>

\* the accounts of an intent: a transfer names its destination second
CpiAccountsFor(w, intent) ==
    IF "to" \in DOMAIN intent
    THEN <<Acct(w, FALSE, TRUE), Acct(intent.to, FALSE, TRUE)>>
    ELSE CpiAccountsOf(w)

PolicyAccountsOf(w) ==
    <<Acct(DevicePda(w, K1), FALSE, FALSE), Acct(w, FALSE, TRUE)>>

\* the header every challenge starts with, under the faults F
NonceOf(s, w, F) ==
    IF "nonce_old" \in F THEN s.last_nonce[w] - 1
    ELSE IF "nonce_new" \in F THEN s.last_nonce[w] + 1
    ELSE s.last_nonce[w]

TimestampOf(s, F) ==
    IF "ts_too_old" \in F THEN s.now - MAX_TIMESTAMP_DRIFT_SECONDS - 1
    ELSE IF "ts_edge_old" \in F THEN s.now - MAX_TIMESTAMP_DRIFT_SECONDS
    ELSE IF "ts_edge_new" \in F THEN s.now + MAX_TIMESTAMP_DRIFT_SECONDS
    ELSE IF "ts_too_new" \in F THEN s.now + MAX_TIMESTAMP_DRIFT_SECONDS + 1
    ELSE s.now

\* the policy half as submitted
TamperPolicyData(data, F) ==
    IF "pdata_byte" \in F THEN [data EXCEPT ![2] = "b1"]
    ELSE IF "pdata_disc" \in F THEN [data EXCEPT ![1] = "check_polic_"]
    ELSE data

TamperPolicyAccounts(accts, F) ==
    IF "pacct_key" \in F
    THEN SetAcct(accts, 2, [accts[2] EXCEPT !.key = "other"])
    ELSE IF "pacct_signer" \in F
    THEN SetAcct(accts, 2, [accts[2] EXCEPT !.is_signer = ~@])
    ELSE IF "pacct_writable" \in F
    THEN SetAcct(accts, 2, [accts[2] EXCEPT !.is_writable = ~@])
    ELSE IF "pacct_order" \in F THEN <<accts[2], accts[1]>>
    ELSE accts

TamperPolicyProgram(program, F) ==
    IF "pprog_registered" \in F THEN OtherPolicy(program)
    ELSE IF "pprog_unregistered" \in F THEN "unregistered_policy"
    ELSE IF "pprog_nonexec" \in F THEN "not_a_program"
    ELSE program

\* the CPI half as submitted
TamperCpiData(data, F) ==
    IF "cdata_byte" \in F
    THEN [data EXCEPT ![2] = IF @ = "amt1" THEN "amt0"
                             ELSE IF @ = "b0" THEN "b1" ELSE "amt1"]
    ELSE IF "cdata_empty" \in F THEN <<>>
    ELSE data

TamperCpiAccounts(accts, F) ==
    IF "cacct_key" \in F
    THEN SetAcct(accts, 2, [accts[2] EXCEPT !.key = "other"])
    ELSE IF "cacct_signer" \in F
    THEN SetAcct(accts, 2, [accts[2] EXCEPT !.is_signer = ~@])
    ELSE IF "cacct_writable" \in F
    THEN SetAcct(accts, 2, [accts[2] EXCEPT !.is_writable = ~@])
    ELSE accts

TamperCpiProgram(program, F) ==
    IF "cprog" \in F
    THEN (IF program = SYSTEM_PROGRAM_ID THEN "target_program"
          ELSE "other_program")
    ELSE program

\* the authorization envelope: passkey, signature, clientDataJSON,
\* authenticatorData, the precompile record and its index
Envelope(w, challenge, F) ==
    LET cdj == ClientDataJson("ok", challenge)
        message == SignedMessage(AUTH_DATA, cdj)
        stale == SignedMessage(AUTH_DATA, ClientDataJson("ok", <<>>))
        signer == IF "device_other_wallet" \in F \/ "secp_pubkey" \in F
                  THEN K2 ELSE K1
        signed == IF "secp_msg" \in F THEN stale ELSE message
        signature == Sign(signer.body, signed, 0)
        secp_ix == SecpIx(signer,
                          IF "secp_sig" \in F THEN Sign(signer.body, signed, 1)
                          ELSE signature,
                          signed)
    IN  [wallet_device |-> IF "device_other_wallet" \in F
                           THEN DevicePda("w2", K2) ELSE DevicePda(w, K1),
         ixs |-> <<secp_ix, EngineIx>>,
         args |-> [passkey_pubkey |-> IF "passkey_other" \in F
                                          \/ "device_other_wallet" \in F
                                      THEN K2 ELSE K1,
                   signature |-> signature,
                   client_data_json_raw |-> cdj,
                   authenticator_data_raw |-> AUTH_DATA,
                   verify_instruction_index |->
                       IF "secp_index" \in F THEN 1 ELSE 0]]

\* an execute_transaction for `intent` on wallet w, submitted with faults F
ExecRequest(s, w, intent, F) ==
    LET policy == s.policy_program[w]
        challenge ==
            <<NonceOf(s, w, F), TimestampOf(s, F),
              Sha256(<<"check_policy", "b0">>),
              ExecAccountsHash(policy, PolicyAccountsOf(w)),
              Sha256(CpiDataOf(intent)),
              ExecAccountsHash(CpiProgramOf(intent),
                               CpiAccountsFor(w, intent))>>
        env == Envelope(w, challenge, F)
        policy_accounts == TamperPolicyAccounts(PolicyAccountsOf(w), F)
    IN  [op |-> "execute_transaction",
         payer |-> "payer",
         smart_wallet |-> w,
         wallet_device |-> env.wallet_device,
         policy_program |-> TamperPolicyProgram(policy, F),
         cpi_program |-> TamperCpiProgram(CpiProgramOf(intent), F),
         ixs |-> env.ixs,
         remaining_accounts |->
             policy_accounts
             \o TamperCpiAccounts(CpiAccountsFor(w, intent), F),
         args |-> Merge(env.args,
                        [split_index |-> Len(policy_accounts),
                         policy_data |->
                             TamperPolicyData(<<"check_policy", "b0">>, F),
                         cpi_data |-> TamperCpiData(CpiDataOf(intent), F)]),
         env |-> [policy_ok |-> "policy_rejects" \notin F,
                  cpi_ok |-> "cpi_fails" \notin F],
         intent |-> intent,
         faults |-> F]

\* an invoke_policy on wallet w; `enrol` asks for the device K2 to be added
InvokeRequest(s, w, enrol, F) ==
    LET policy == s.policy_program[w]
        elsewhere == F \cap {"newdev_elsewhere", "newdev_nosigner"} # {}
        signed_device == IF enrol THEN NewDevice(K2)
                         ELSE IF elsewhere THEN NewDevice(K1) ELSE NoDevice
        new_authenticator == IF "newdev_unsigned" \in F THEN NewDevice(K2)
                             ELSE signed_device
        new_auth == IF elsewhere
                    THEN Acct("fresh_key", "newdev_elsewhere" \in F, TRUE)
                    ELSE Acct(DevicePda(w, K2), FALSE, TRUE)
        challenge ==
            <<NonceOf(s, w, F), TimestampOf(s, F),
              Sha256(<<"add_device", "b0">>),
              ExecAccountsHash(policy, PolicyAccountsOf(w)),
              signed_device>>
        env == Envelope(w, challenge, F)
    IN  [op |-> "invoke_policy",
         payer |-> "payer",
         smart_wallet |-> w,
         wallet_device |-> env.wallet_device,
         policy_program |-> TamperPolicyProgram(policy, F),
         ixs |-> env.ixs,
         remaining_accounts |->
             (IF new_authenticator.some THEN <<new_auth>> ELSE <<>>)
             \o TamperPolicyAccounts(PolicyAccountsOf(w), F),
         args |-> Merge(env.args,
                        [policy_data |->
                             TamperPolicyData(<<"add_device", "b0">>, F),
                         new_authenticator |-> new_authenticator]),
         env |-> [policy_ok |-> "policy_rejects" \notin F],
         faults |-> F]

\* an update_policy on wallet w from its current policy program to `target`;
\* `enrol` asks for the device K2 to be added
UpdateRequest(s, w, target, enrol, F) ==
    LET old == s.policy_program[w]
        challenge ==
            <<NonceOf(s, w, F), TimestampOf(s, F),
              Sha256(<<"destroy", "b0">>),
              ExecAccountsHash(old, PolicyAccountsOf(w)),
              Sha256(<<"init_policy", "b0">>),
              ExecAccountsHash(target, PolicyAccountsOf(w))>>
        env == Envelope(w, challenge, F)
        destroy_accounts == TamperPolicyAccounts(PolicyAccountsOf(w), F)
    IN  [op |-> "update_policy",
         payer |-> "payer",
         smart_wallet |-> w,
         wallet_device |-> env.wallet_device,
         old_policy_program |-> TamperPolicyProgram(old, F),
         new_policy_program |->
             IF "nprog_unregistered" \in F THEN "unregistered_policy"
             ELSE IF "nprog_nonexec" \in F THEN "not_a_program"
             ELSE IF "nprog_same" \in F THEN old
             ELSE target,
         ixs |-> env.ixs,
         remaining_accounts |->
             (IF enrol THEN <<Acct(DevicePda(w, K2), FALSE, TRUE)>> ELSE <<>>)
             \o destroy_accounts
             \o (IF "iacct_key" \in F
                 THEN TamperPolicyAccounts(PolicyAccountsOf(w), {"pacct_key"})
                 ELSE PolicyAccountsOf(w)),
         args |-> Merge(env.args,
                        [split_index |-> Len(destroy_accounts),
                         destroy_policy_data |->
                             TamperPolicyData(<<"destroy", "b0">>, F),
                         init_policy_data |->
                             IF "init_byte" \in F
                             THEN <<"init_policy", "b1">>
                             ELSE IF "init_disc" \in F
                             THEN <<"init_polic_", "b0">>
                             ELSE <<"init_policy", "b0">>,
                         new_authenticator |->
                             IF enrol THEN NewDevice(K2) ELSE NoDevice]),
         env |-> [destroy_ok |-> "policy_rejects" \notin F,
                  init_ok |-> "init_rejects" \notin F],
         faults |-> F]

\* a commit_cpi on wallet w that deposits `intent` until `expires_at`
CommitRequest(s, w, intent, expires_at, F) ==
    LET policy == s.policy_program[w]
        challenge ==
            <<NonceOf(s, w, F), TimestampOf(s, F),
              Sha256(<<"check_rule", "b0">>),
              CommitAccountsHash(policy, PolicyAccountsOf(w)),
              Sha256(CpiDataOf(intent)),
              CommittedAccountsHash(CpiProgramOf(intent),
                                    CpiAccountsFor(w, intent))>>
        env == Envelope(w, challenge, F)
    IN  [op |-> "commit_cpi",
         payer |-> "payer",
         smart_wallet |-> w,
         wallet_device |-> env.wallet_device,
         policy_program |-> TamperPolicyProgram(policy, F),
         cpi_commit |-> IF "session_key" \in F
                        THEN SessionPda("w2", s.last_nonce[w])
                        ELSE SessionPda(w, s.last_nonce[w]),
         ixs |-> env.ixs,
         remaining_accounts |-> TamperPolicyAccounts(PolicyAccountsOf(w), F),
         args |-> Merge(env.args,
                        [rule_data |->
                             TamperPolicyData(<<"check_rule", "b0">>, F),
                         cpi_program |-> CpiProgramOf(intent),
                         expires_at |-> expires_at]),
         env |-> [policy_ok |-> "policy_rejects" \notin F],
         intent |-> intent,
         faults |-> F]

\* an execute_committed that redeems the session c with `intent`
RedeemRequest(c, intent, F) ==
    [op |-> "execute_committed",
     payer |-> "payer",
     smart_wallet |-> IF "wrong_wallet" \in F THEN "w2" ELSE c.owner_wallet,
     cpi_program |-> IF "cprog_nonexec" \in F THEN "not_a_program"
                     ELSE TamperCpiProgram(CpiProgramOf(intent), F),
     cpi_commit |-> IF "missing_session" \in F THEN SessionPda("w2", 0)
                    ELSE c.key,
     commit_refund |-> IF "wrong_refund" \in F THEN "other"
                       ELSE c.rent_refund_to,
     ixs |-> <<EngineIx>>,
     remaining_accounts |->
         TamperCpiAccounts(CpiAccountsFor(c.owner_wallet, intent), F),
     args |-> [cpi_data |-> TamperCpiData(CpiDataOf(intent), F)],
     env |-> [cpi_ok |-> "cpi_fails" \notin F],
     intent |-> intent,
     faults |-> F]

-----------------------------------------------------------------------------
(* The state machine *)

\* the clock at the start, and the seconds one clock step adds
NOW0 == 100
TICK_STEP == 31
\* lamports the wallet w1 and the fee payer start with
WalletInit == 2
PayerInit == 2

AuthFaults ==
    {"nonce_old", "nonce_new", "ts_too_old", "ts_too_new", "passkey_other", "device_other_wallet", "secp_pubkey",
     "secp_sig", "secp_msg", "secp_index"}

PolicyFaults ==
    {"pdata_byte", "pdata_disc", "pacct_key", "pacct_signer", "pacct_writable",
     "pacct_order", "pprog_registered", "pprog_unregistered", "pprog_nonexec",
     "policy_rejects"}

CpiFaults ==
    {"cdata_byte", "cdata_empty", "cacct_key", "cacct_signer",
     "cacct_writable", "cprog", "cpi_fails"}

\* fault combinations explored together
PairedFaults ==
    {{"policy_rejects", "cdata_byte"}, {"nonce_old", "cdata_byte"},
     {"ts_too_old", "nonce_old"}}

FaultSets(allowed) ==
    {{}} \cup {{f} : f \in allowed}
         \cup {P \in PairedFaults : P \subseteq allowed}

\* a challenge nonce is a u64
NonceFaultsFit(s, w, F) ==
    /\ F # {} => tampered < MaxTampered
    /\ s.config.is_paused => F = {}
    /\ "nonce_old" \in F => s.last_nonce[w] > 0
    /\ "nonce_new" \in F => s.last_nonce[w] < U64_MAX

Transfer(amount) == [kind |-> "transfer", amount |-> amount]
Invoke == [kind |-> "cpi", amount |-> "none"]
\* a native transfer whose destination is the account `to`
TransferTo(amount, to) == [kind |-> "transfer", amount |-> amount, to |-> to]
\* a CPI whose target is this program
Reenter == [kind |-> "reenter", amount |-> "none"]

AuthorisedOps ==
    {"execute_transaction", "invoke_policy", "update_policy", "commit_cpi"}

NoCall ==
    [op |-> "none", req |-> [op |-> "none"], result |-> "none",
     trace |-> <<>>, pre |-> [op |-> "none"], resubmitted |-> FALSE,
     nonce_reused |-> FALSE, reperformed |-> FALSE, recreated |-> FALSE]

InitAccounts ==
    /\ last_nonce = [w \in Wallets |-> 0]
    /\ policy_program = [w \in Wallets |-> "default_policy"]
    /\ lamports = [a \in {"w1", "w2", "dest", "payer", "other"} |->
                      CASE a = "w1" -> WalletInit
                        [] a = "w2" -> RENT_EXEMPT_MINIMUM
                        [] a = "payer" -> PayerInit
                        [] OTHER -> 0]
    /\ devices = {WalletDevice("w1", K1), WalletDevice("w2", K2)}
    /\ sessions = {}
    /\ config = [authority |-> "admin", create_smart_wallet_fee |-> 0,
                 execute_fee |-> 0,
                 default_policy_program |-> "default_policy",
                 is_paused |-> FALSE]
    /\ registry = <<"default_policy", "policy_a", "policy_b">>
    /\ wallet_id = [w \in Wallets |-> WalletIdOf(w)]
    /\ now = NOW0
    /\ last = NoCall
    /\ used = {}
    /\ performed = {}
    /\ committed = {}
    /\ tampered = 0

Init ==
    /\ InitAccounts
    /\ pf = [kind |-> "idle"]

\* the nonce a request's signed challenge carries
ChallengeNonce(r) == r.args.client_data_json_raw.challenge[1]
ChallengeTimestamp(r) == r.args.client_data_json_raw.challenge[2]

PerformedIn(trace) ==
    \E i \in DOMAIN trace : trace[i].kind \in {"transfer", "user_cpi"}
                            /\ trace[i].ok

\* what is remembered of a session once it was created
SessionTag(c) ==
    [key |-> c.key, owner_wallet |-> c.owner_wallet,
     authorized_nonce |-> c.authorized_nonce]

\* The runtime: precompiles first, then the handler; an error rolls every
\* account back.  `out` is the handler's outcome on the current state.
Commit(r, out, resubmitted) ==
    LET res == IF PrecompilesPass(r.ixs) THEN out
               ELSE Fail("PrecompileFailed", <<>>)
        ok == res.result = "Ok"
        post == IF ok THEN res.post ELSE State
        authorised == ok /\ r.op \in AuthorisedOps
        redeemed == ok /\ r.op = "execute_committed" /\ PerformedIn(res.trace)
        opened == {SessionTag(c) : c \in post.sessions \ sessions}
    IN  /\ last_nonce' = post.last_nonce
        /\ policy_program' = post.policy_program
        /\ lamports' = post.lamports
        /\ devices' = post.devices
        /\ sessions' = post.sessions
        /\ last' = [op |-> r.op, req |-> r, result |-> res.result,
                    trace |-> res.trace, pre |-> State,
                    resubmitted |-> resubmitted,
                    nonce_reused |->
                        authorised
                        /\ <<r.smart_wallet, ChallengeNonce(r)>> \in used,
                    reperformed |-> redeemed /\ r.cpi_commit \in performed,
                    recreated |->
                        \E t \in opened, u \in committed :
                            \/ t.key = u.key
                            \/ /\ t.owner_wallet = u.owner_wallet
                               /\ t.authorized_nonce = u.authorized_nonce]
        /\ used' = IF authorised
                   THEN used \cup {<<r.smart_wallet, ChallengeNonce(r)>>}
                   ELSE used
        /\ performed' = IF redeemed THEN performed \cup {r.cpi_commit}
                        ELSE performed
        /\ committed' = committed \cup opened
        /\ tampered' = IF ok /\ r.faults # {} THEN tampered + 1 ELSE tampered

Runtime(r, out, resubmitted) ==
    /\ Commit(r, out, resubmitted)
    /\ UNCHANGED <<config, registry, wallet_id, now, pf>>

\* A failed instruction leaves every account as it was: whatever can follow it
\* could have been submitted in its place.  The model therefore continues
\* from the states a success (or the start) leaves, and a failure is a leaf.
Settled == last.result \in {"Ok", "none"}

\* the faults of the shared authorization pipeline tried on every handler
SharedAuthFaults ==
    {"nonce_old", "nonce_new", "ts_too_old", "ts_too_new", "secp_sig",
     "passkey_other", "device_other_wallet"}

InvokeFaults ==
    {"pdata_byte", "pacct_key", "pacct_signer", "pacct_writable",
     "pprog_registered", "policy_rejects", "newdev_unsigned",
     "newdev_elsewhere", "newdev_nosigner"}

UpdateFaults ==
    {"pdata_byte", "pdata_disc", "init_byte", "init_disc", "pacct_key",
     "iacct_key", "pprog_registered", "pprog_unregistered", "pprog_nonexec",
     "nprog_unregistered", "nprog_nonexec", "nprog_same",
     "policy_rejects", "init_rejects"}

CommitFaults ==
    {"pdata_byte", "pdata_disc", "pacct_key", "pacct_signer", "pacct_writable",
     "pprog_registered", "policy_rejects", "session_key"}

RedeemFaults ==
    {"cdata_byte", "cacct_key", "cacct_signer", "cacct_writable", "cprog",
     "cprog_nonexec", "cpi_fails", "wrong_wallet", "wrong_refund",
     "missing_session"}

Handle(s, r) ==
    CASE r.op = "execute_transaction" -> execute_transaction(s, r)
      [] r.op = "invoke_policy" -> invoke_policy(s, r)
      [] r.op = "update_policy" -> update_policy(s, r)
      [] r.op = "commit_cpi" -> commit_cpi(s, r)
      [] r.op = "execute_committed" -> execute_committed(s, r)

ExecuteTransaction ==
    \E intent \in {Transfer("amt1"), Invoke},
       F \in FaultSets(AuthFaults \cup PolicyFaults \cup CpiFaults) :
        /\ Settled
        /\ NonceFaultsFit(State, "w1", F)
        /\ intent = Invoke => F \subseteq CpiFaults
        /\ LET r == ExecRequest(State, "w1", intent, F)
           IN  Runtime(r, execute_transaction(State, r), FALSE)

InvokePolicy ==
    \E enrol \in BOOLEAN, F \in FaultSets(SharedAuthFaults \cup InvokeFaults) :
        /\ Settled
        /\ NonceFaultsFit(State, "w1", F)
        /\ enrol => F = {}
        /\ LET r == InvokeRequest(State, "w1", enrol, F)
           IN  Runtime(r, invoke_policy(State, r), FALSE)

UpdatePolicy ==
    \E target \in {OtherPolicy(policy_program["w1"]), "policy_b"},
       enrol \in BOOLEAN,
       F \in FaultSets(SharedAuthFaults \cup UpdateFaults) :
        /\ Settled
        /\ NonceFaultsFit(State, "w1", F)
        /\ target = "policy_b" => F = {}
        /\ enrol => F \subseteq {"policy_rejects", "init_rejects"}
        /\ LET r == UpdateRequest(State, "w1", target, enrol, F)
           IN  Runtime(r, update_policy(State, r), FALSE)

CommitCpi ==
    \E intent \in {Transfer("amt1"), Invoke},
       expires_at \in {now - 1, now},
       F \in FaultSets(SharedAuthFaults \cup CommitFaults) :
        /\ Settled
        /\ NonceFaultsFit(State, "w1", F)
        /\ (expires_at # now \/ intent = Invoke) => F = {}
        /\ LET r == CommitRequest(State, "w1", intent, expires_at, F)
           IN  Runtime(r, commit_cpi(State, r), FALSE)

ExecuteCommitted ==
    \E c \in sessions, intent \in {Transfer("amt1"), Invoke},
       F \in FaultSets(RedeemFaults) :
        /\ Settled
        /\ F # {} => tampered < MaxTampered
        /\ Sha256(CpiDataOf(intent)) = c.data_hash
        /\ LET r == RedeemRequest(c, intent, F)
           IN  Runtime(r, execute_committed(State, r), FALSE)

\* the same transaction, verbatim, after it succeeded
Resubmit ==
    /\ last.result = "Ok"
    /\ Runtime(last.req, Handle(State, last.req), TRUE)

Tick ==
    /\ Settled
    /\ now < NOW0 + MaxTicks * TICK_STEP
    /\ now' = now + TICK_STEP
    /\ UNCHANGED <<last_nonce, policy_program, lamports, devices, sessions,
                   config, registry, wallet_id, last, used, performed,
                   committed, tampered, pf>>

\* update_config by the authority, for the two parameters that set and clear
\* Config.is_paused
UpdateConfig ==
    \E param \in {"PauseProgram", "UnpauseProgram"} :
        /\ Settled
        /\ config.is_paused = (param = "UnpauseProgram")
        /\ config' = [config EXCEPT !.is_paused = (param = "PauseProgram")]
        /\ UNCHANGED <<last_nonce, policy_program, lamports, devices, sessions,
                       registry, wallet_id, now, last, used, performed, committed,
                       tampered, pf>>

Next ==
    \/ UpdateConfig
    \/ ExecuteTransaction
    \/ InvokePolicy
    \/ UpdatePolicy
    \/ CommitCpi
    \/ ExecuteCommitted
    \/ Resubmit
    \/ Tick

Spec == Init /\ [][Next]_vars

-----------------------------------------------------------------------------
(* The signature verifier on its own: every way the precompile instruction   *)
(* can depart from the one the client built, up to MaxDeviations at a time   *)

MaxDeviations == 2

SecpDeviations ==
    {"program_id", "accounts", "len", "num_signatures", "signature_offset",
     "signature_instruction_index", "public_key_offset",
     "public_key_instruction_index", "message_data_offset",
     "message_data_size", "message_instruction_index", "pubkey", "sig", "msg",
     "index"}

\* the instruction at position 0 of the transaction, departing from `base` in D
DeviatedIx(base, D) ==
    LET d == base.data
        Off(field, n) == IF field \in D THEN n + 1 ELSE n
        Idx(field) == IF field \in D THEN 0 ELSE U16_MAX
        pubkey == IF "pubkey" \in D THEN K2 ELSE d.pubkey
        msg == IF "msg" \in D
               THEN SignedMessage(AUTH_DATA, ClientDataJson("ok", <<>>))
               ELSE d.msg
    IN  [program_id |-> IF "program_id" \in D THEN PROGRAM_ID
                        ELSE base.program_id,
         accounts |-> IF "accounts" \in D THEN <<"payer">> ELSE base.accounts,
         data |->
            [len |-> Off("len", d.len),
             num_signatures |-> Off("num_signatures", d.num_signatures),
             signature_offset |-> Off("signature_offset", d.signature_offset),
             signature_instruction_index |-> Idx("signature_instruction_index"),
             public_key_offset |-> Off("public_key_offset", d.public_key_offset),
             public_key_instruction_index |->
                 Idx("public_key_instruction_index"),
             message_data_offset |->
                 Off("message_data_offset", d.message_data_offset),
             message_data_size |-> Off("message_data_size", d.message_data_size),
             message_instruction_index |-> Idx("message_instruction_index"),
             pubkey |-> pubkey,
             sig |-> IF "sig" \in D THEN Sign(pubkey.body, msg, 1) ELSE d.sig,
             msg |-> msg]]

\* the execute_transaction a client built, its precompile instruction deviated
SignedRequest(s, D) ==
    LET r == ExecRequest(s, "w1", Invoke, {})
    IN  [r EXCEPT !.ixs = <<DeviatedIx(r.ixs[1], D), EngineIx>>,
                  !.args.verify_instruction_index =
                      IF "index" \in D THEN 1 ELSE 0]

InitSig ==
    /\ InitAccounts
    /\ pf \in {[kind |-> "sig_input", dev |-> D, result |-> "none"] :
                  D \in {X \in SUBSET SecpDeviations :
                            Cardinality(X) <= MaxDeviations}}

\* verify_secp256r1_instruction applied to the instruction at the index
VerifySecp ==
    /\ pf.kind = "sig_input"
    /\ LET r == SignedRequest(State, pf.dev)
           a == r.args
       IN  pf' = [pf EXCEPT
                    !.kind = "sig_verified",
                    !.result = verify_secp256r1_instruction(
                        r.ixs[a.verify_instruction_index + 1],
                        DeviceAt(State, r.wallet_device).passkey_pubkey,
                        SignedMessage(a.authenticator_data_raw,
                                      a.client_data_json_raw),
                        a.signature)]
    /\ UNCHANGED <<last_nonce, policy_program, lamports, devices, sessions,
                   config, registry, wallet_id, now, last, used, performed, committed,
                   tampered>>

\* the whole transaction submitted with the deviated instruction
SubmitSigned ==
    /\ pf.kind = "sig_input"
    /\ LET r == SignedRequest(State, pf.dev)
       IN  Commit(r, execute_transaction(State, r), FALSE)
    /\ pf' = [pf EXCEPT !.kind = "sig_submitted"]
    /\ UNCHANGED <<config, registry, wallet_id, now>>

NextSig ==
    \/ VerifySecp
    \/ SubmitSigned

SpecSig == InitSig /\ [][NextSig]_vars

-----------------------------------------------------------------------------
(* The freshness guard on its own: clocks and timestamps at the window's     *)
(* ends and at the ends of i64                                               *)

Variants == {"Execute", "InvokePolicy", "UpdatePolicy"}

Clocks ==
    {I64_MIN, I64_MIN + 29, I64_MIN + 30, I64_MIN + 31, -1, 0, NOW0,
     I64_MAX - 31, I64_MAX - 30, I64_MAX - 29, I64_MAX}

Drifts == {-31, -30, -29, -1, 0, 1, 29, 30, 31}

\* a well-formed challenge of the variant: header, then its hash fields
TimeChallenge(variant, nonce, ts) ==
    <<nonce, ts>> \o [i \in 1..(FieldCount(variant) - 2) |-> Sha256(<<>>)]

InitTime ==
    /\ InitAccounts
    /\ pf \in {p \in {[kind |-> "time_input", variant |-> v, clock |-> c,
                        ts |-> c + d, nonce |-> n, result |-> "none"] :
                          v \in Variants, c \in Clocks, d \in Drifts,
                          n \in {0, 1}} :
                  p.ts >= I64_MIN /\ p.ts <= I64_MAX}

\* Message::verify applied to the challenge, the wallet's nonce being 0
VerifyChallenge ==
    /\ pf.kind = "time_input"
    /\ pf' = [pf EXCEPT
                !.kind = "time_verified",
                !.result = MessageVerify(pf.variant,
                               TimeChallenge(pf.variant, pf.nonce, pf.ts),
                               0, pf.clock)]
    /\ UNCHANGED <<last_nonce, policy_program, lamports, devices, sessions,
                   config, registry, wallet_id, now, last, used, performed, committed,
                   tampered>>

NextTime == VerifyChallenge

SpecTime == InitTime /\ [][NextTime]_vars

-----------------------------------------------------------------------------
(* Properties.  `last` holds the most recent instruction: its request, its   *)
(* result, the calls it made and the state it started from.                  *)

Req == last.req
Challenge == last.req.args.client_data_json_raw.challenge
Unpaused == ~last.pre.config.is_paused

\* the fee payer can fund the account a commit_cpi creates
Funded ==
    last.op = "commit_cpi" => last.pre.lamports[Req.payer] >= SESSION_RENT

\* no native transfer and no user CPI among the calls made
NoneMade(trace) ==
    \A i \in DOMAIN trace : trace[i].kind \notin {"transfer", "user_cpi"}

\* the policy CPI was made and returned OK: every earlier check had passed
PolicyPassed ==
    /\ last.trace # <<>>
    /\ last.trace[1].kind = "policy_cpi"
    /\ last.trace[1].ok

\* C1: an authorised action (execute_transaction, invoke_policy,
\* update_policy, commit_cpi) that succeeds carried the wallet's last_nonce
\* of entry and leaves last_nonce one higher; one that fails leaves every
\* last_nonce as it was; NonceMismatch is returned only for a nonce that
\* differs, and always when the nonce is the transaction's only defect.
C1_NonceGate ==
    last.op \in AuthorisedOps =>
        LET entry == last.pre.last_nonce[Req.smart_wallet]
        IN  /\ last.result = "Ok" =>
                /\ ChallengeNonce(Req) = entry
                /\ last_nonce[Req.smart_wallet] = entry + 1
            /\ last.result # "Ok" => last_nonce = last.pre.last_nonce
            /\ last.result = "NonceMismatch" => ChallengeNonce(Req) # entry
            /\ (/\ Unpaused
                /\ Funded
                /\ Req.faults \in {{"nonce_old"}, {"nonce_new"}})
                   => last.result = "NonceMismatch"

C1_Witness ==
    /\ last.op = "commit_cpi"
    /\ last.result = "Ok"
    /\ last.pre.last_nonce["w1"] = 1
    /\ last_nonce["w1"] = 2

C3_PolicyBinding ==
    (last.op = "execute_transaction" /\ Unpaused) =>
        LET policy_accounts ==
                SubSeq(Req.remaining_accounts, 1, Req.args.split_index)
        IN  /\ last.result = "Ok" =>
                /\ Sha256(Req.args.policy_data) = Challenge[3]
                /\ Challenge[3] = <<"sha256", Req.args.policy_data>>
                /\ ExecAccountsHash(Req.policy_program, policy_accounts)
                       = Challenge[4]
            /\ Req.faults = {"pdata_byte"}
                   => last.result = "InvalidInstructionData"
            /\ Req.faults = {"pdata_disc"}
                   => last.result = "InvalidCheckPolicyDiscriminator"
            /\ Req.faults \in {{"pacct_key"}, {"pacct_signer"},
                               {"pacct_writable"}, {"pacct_order"}}
                   => last.result = "InvalidAccountData"
            /\ Req.faults = {"pprog_registered"}
                   => last.result = "InvalidProgramAddress"
            /\ Req.faults = {"pprog_unregistered"}
                   => last.result = "PolicyProgramNotRegistered"
            /\ Req.faults = {"pprog_nonexec"}
                   => last.result = "ConstraintExecutable"

C3_Witness ==
    /\ last.op = "execute_transaction"
    /\ Req.faults = {"pacct_writable"}
    /\ last.result = "InvalidAccountData"
    /\ Sha256(Req.args.policy_data) = Challenge[3]

\* C3 as the specification states it: any byte of policy_data changed fails
\* with InvalidInstructionData; the policy program id or a policy account
\* changed fails with InvalidAccountData.
C3_Original ==
    (last.op = "execute_transaction" /\ Unpaused) =>
        /\ Req.faults \in {{"pdata_byte"}, {"pdata_disc"}}
               => last.result = "InvalidInstructionData"
        /\ Req.faults \in {{"pacct_key"}, {"pacct_signer"}, {"pacct_writable"},
                           {"pacct_order"}, {"pprog_registered"},
                           {"pprog_unregistered"}, {"pprog_nonexec"}}
               => last.result = "InvalidAccountData"

\* C4 (as amended): an execute_transaction whose cpi_data hash or CPI
\* accounts hash differs from the challenge's fails, makes no user CPI and no
\* transfer, and leaves lamports, last_nonce and policy_program as they
\* were; once the policy CPI has returned OK the error is
\* InvalidInstructionData for a cpi_data of 1 to 1024 bytes whose hash
\* differs (CpiDataMissing for an empty one), and InvalidAccountData when
\* only the accounts hash differs.
C4_CpiBinding ==
    last.op = "execute_transaction" =>
        LET cpi_accounts ==
                SubSeqFrom(Req.remaining_accounts, Req.args.split_index + 1)
            data_differs == Sha256(Req.args.cpi_data) # Challenge[5]
            accounts_differ ==
                ExecAccountsHash(Req.cpi_program, cpi_accounts) # Challenge[6]
        IN  /\ (data_differs \/ accounts_differ) =>
                /\ last.result # "Ok"
                /\ NoneMade(last.trace)
                /\ lamports = last.pre.lamports
                /\ last_nonce = last.pre.last_nonce
                /\ policy_program = last.pre.policy_program
            /\ (PolicyPassed /\ data_differs) =>
                   last.result = IF Req.args.cpi_data = <<>>
                                 THEN "CpiDataMissing"
                                 ELSE "InvalidInstructionData"
            /\ (PolicyPassed /\ ~data_differs /\ accounts_differ)
                   => last.result = "InvalidAccountData"
            /\ (Unpaused /\ Req.faults = {"cdata_byte"})
                   => last.result = "InvalidInstructionData"
            /\ (Unpaused /\ Req.faults \in {{"cacct_key"}, {"cacct_signer"},
                                            {"cacct_writable"}})
                   => last.result = "InvalidAccountData"

C4_Witness ==
    /\ last.op = "execute_transaction"
    /\ PolicyPassed
    /\ Req.intent.kind = "transfer"
    /\ Sha256(Req.args.cpi_data) # Challenge[5]
    /\ last.result = "InvalidInstructionData"
    /\ last.pre.lamports["w1"] = WalletInit

\* C4 as the specification states it: a cpi_data whose hash differs from the
\* challenge's fails with InvalidInstructionData (every earlier check having
\* passed).
C4_Original ==
    (/\ last.op = "execute_transaction"
     /\ PolicyPassed
     /\ Sha256(Req.args.cpi_data) # Challenge[5])
        => last.result = "InvalidInstructionData"

\* the conditions under which the verifier is to accept the instruction
\* `ix` for the device's passkey, the supplied signature and the message
SecpAccepts(ix, passkey, signature, message) ==
    /\ ix.program_id = SECP256R1_ID
    /\ ix.accounts = <<>>
    /\ ix.data.len = 16 + 33 + 64 + MsgLen(message)
    /\ ix.data.num_signatures = 1
    /\ ix.data.signature_offset = 49
    /\ ix.data.public_key_offset = 16
    /\ ix.data.message_data_offset = 113
    /\ ix.data.message_data_size = MsgLen(message)
    /\ ix.data.signature_instruction_index = 65535
    /\ ix.data.public_key_instruction_index = 65535
    /\ ix.data.message_instruction_index = 65535
    /\ ix.data.pubkey = passkey
    /\ ix.data.sig = signature
    /\ ix.data.msg = message

\* C5: the verifier accepts the instruction at verify_instruction_index
\* exactly when it is a secp256r1 precompile instruction without accounts, of
\* length 16 + 33 + 64 + |message|, whose header declares one signature at
\* offsets 49 / 16 / 113 with message size |message| and the three index
\* fields 0xFFFF, and whose public key, signature and message are the
\* device's passkey, the supplied signature and authenticatorData followed by
\* SHA-256(clientDataJSON); a transaction whose public key, signature,
\* message or index was changed fails and changes no account.
C5_VerifierBinding ==
    /\ pf.kind = "sig_verified" =>
           LET q == SignedRequest(State, pf.dev)
           IN  (pf.result = "Ok") <=>
                   SecpAccepts(q.ixs[q.args.verify_instruction_index + 1],
                               K1, q.args.signature,
                               [auth |-> q.args.authenticator_data_raw,
                                client_hash |->
                                    <<"sha256",
                                      q.args.client_data_json_raw>>])
    /\ (/\ pf.kind = "sig_submitted"
        /\ pf.dev \cap {"pubkey", "sig", "msg", "index"} # {}) =>
           /\ last.result # "Ok"
           /\ State = last.pre
    /\ (pf.kind = "sig_submitted" /\ pf.dev = {}) => last.result = "Ok"

C5_Witness ==
    /\ pf.kind = "sig_submitted"
    /\ pf.dev = {"sig"}
    /\ last.result = "Secp256r1DataMismatch"

\* C6: whatever the variant, Message::verify accepts a well-formed challenge
\* only if now - 30 <= current_timestamp <= now + 30, returns TimestampTooOld
\* exactly when current_timestamp < now - 30 and TimestampTooNew exactly
\* when current_timestamp > now + 30.
C6_TimestampWindow ==
    pf.kind = "time_verified" =>
        /\ pf.result = "Ok" =>
               (pf.clock - 30 <= pf.ts /\ pf.ts <= pf.clock + 30)
        /\ (pf.result = "TimestampTooOld") <=> (pf.ts < pf.clock - 30)
        /\ (pf.result = "TimestampTooNew") <=> (pf.ts > pf.clock + 30)
        /\ (pf.clock - 30 <= pf.ts /\ pf.ts <= pf.clock + 30)
               => pf.result = IF pf.nonce = 0 THEN "Ok" ELSE "NonceMismatch"

C6_Witness ==
    /\ pf.kind = "time_verified"
    /\ pf.variant = "UpdatePolicy"
    /\ pf.ts = pf.clock + 30
    /\ pf.result = "Ok"

\* C7: in execute_transaction a native transfer or user CPI is made only
\* after the policy CPI of the same invocation returned OK; when the policy
\* program returns an error the instruction fails with that error, makes no
\* transfer and no user CPI, and leaves lamports and last_nonce as they were.
C7_PolicyFirst ==
    last.op = "execute_transaction" =>
        /\ \A i \in DOMAIN last.trace :
               last.trace[i].kind \in {"transfer", "user_cpi"} =>
                   /\ i > 1
                   /\ PolicyPassed
                   /\ Req.env.policy_ok
        /\ (last.trace # <<>> /\ ~Req.env.policy_ok) =>
               /\ last.result = "PolicyError"
               /\ NoneMade(last.trace)
               /\ lamports = last.pre.lamports
               /\ last_nonce = last.pre.last_nonce

C7_Witness ==
    /\ last.op = "execute_transaction"
    /\ Req.intent.kind = "transfer"
    /\ Len(last.trace) = 1
    /\ ~last.trace[1].ok
    /\ last.result = "PolicyError"

\* C8: execute_committed makes a transfer or CPI only when now <= expires_at,
\* the session's owner_wallet is the wallet supplied, and SHA-256(cpi_data)
\* and the accounts hash over (cpi_program, remaining accounts) equal the
\* session's; the call made is the one supplied: that program, data and
\* account list; a tampered redemption makes no call; and no session has its
\* call performed twice.
C8_CommittedBinding ==
    last.op = "execute_committed" =>
        /\ \A i \in DOMAIN last.trace :
               last.trace[i].kind \in {"transfer", "user_cpi"} =>
                   LET c == SessionAt(last.pre, Req.cpi_commit)
                   IN  /\ last.pre.now <= c.expires_at
                       /\ c.owner_wallet = Req.smart_wallet
                       /\ Sha256(Req.args.cpi_data) = c.data_hash
                       /\ CommittedAccountsHash(Req.cpi_program,
                                                Req.remaining_accounts)
                              = c.accounts_hash
                       /\ last.trace[i].program = Req.cpi_program
                       /\ last.trace[i].data = Req.args.cpi_data
                       /\ last.trace[i].accounts = Req.remaining_accounts
        /\ Len(last.trace) <= 1
        /\ Req.faults \cap {"cdata_byte", "cacct_key", "cacct_signer", "cprog",
                            "cprog_nonexec", "wrong_wallet"} # {}
               => last.trace = <<>>
        /\ ~last.reperformed

C8_Witness ==
    /\ last.op = "execute_committed"
    /\ last.result = "Ok"
    /\ Len(last.trace) = 1
    /\ last.trace[1].kind = "transfer"
    /\ last.pre.now = SessionAt(last.pre, Req.cpi_commit).expires_at
    /\ Req.cpi_commit \in performed

\* C9: execute_committed on a live session with a data hash or accounts hash
\* that differs, a wallet other than owner_wallet, or now > expires_at
\* returns OK, makes no CPI and no transfer, leaves every wallet's lamports
\* and last_nonce as they were, and closes the session with its lamports
\* paid to rent_refund_to.
C9_GracefulClose ==
    (/\ last.op = "execute_committed"
     /\ ExecuteCommittedAccounts(last.pre, Req) = "Ok") =>
        LET c == SessionAt(last.pre, Req.cpi_commit)
            mismatch ==
                \/ Sha256(Req.args.cpi_data) # c.data_hash
                \/ CommittedAccountsHash(Req.cpi_program,
                                         Req.remaining_accounts)
                       # c.accounts_hash
                \/ Req.smart_wallet # c.owner_wallet
                \/ last.pre.now > c.expires_at
        IN  mismatch =>
                /\ last.result = "Ok"
                /\ last.trace = <<>>
                /\ \A w \in Wallets : lamports[w] = last.pre.lamports[w]
                /\ last_nonce = last.pre.last_nonce
                /\ ~(\E x \in sessions : x.key = c.key)
                /\ sessions = last.pre.sessions \ {c}
                /\ lamports[c.rent_refund_to]
                       = last.pre.lamports[c.rent_refund_to] + c.lamports

C9_Witness ==
    /\ last.op = "execute_committed"
    /\ Req.faults = {"cdata_byte"}
    /\ last.result = "Ok"
    /\ last.pre.now <= SessionAt(last.pre, Req.cpi_commit).expires_at
    /\ lamports["payer"] = last.pre.lamports["payer"] + SESSION_RENT

\* C10 as the specification states it: a successful execute_committed that
\* performed its transfer or CPI leaves the wallet's last_nonce unchanged.
C10_NonceKept ==
    (/\ last.op = "execute_committed"
     /\ last.result = "Ok"
     /\ PerformedIn(last.trace))
        => last_nonce = last.pre.last_nonce

\* C11 as the specification states it: a successful commit_cpi made the
\* policy binding checks of execute_transaction (check_policy discriminator,
\* accounts hash of execute_transaction) and its check_policy CPI, made no
\* user CPI and no transfer, recorded the session fields from the challenge
\* and the payer, and left last_nonce one higher.
C11_SameAsExecute ==
    (last.op = "commit_cpi" /\ last.result = "Ok") =>
        LET entry == last.pre.last_nonce[Req.smart_wallet]
            c == SessionAt(State, Req.cpi_commit)
        IN  /\ StartsWith8(Req.args.rule_data, sighash("global", "check_policy"))
            /\ ExecAccountsHash(Req.policy_program, Req.remaining_accounts)
                   = Challenge[4]
            /\ Sha256(Req.args.rule_data) = Challenge[3]
            /\ PolicyPassed
            /\ NoneMade(last.trace)
            /\ c.owner_wallet = Req.smart_wallet
            /\ c.data_hash = Challenge[5]
            /\ c.accounts_hash = Challenge[6]
            /\ c.authorized_nonce = entry
            /\ c.rent_refund_to = Req.payer
            /\ last_nonce[Req.smart_wallet] = entry + 1

\* C11, the part the code keeps: a successful commit_cpi verified the data
\* hash of its policy half, made the policy CPI and no other call, recorded
\* owner_wallet, data_hash, accounts_hash, authorized_nonce, expires_at and
\* rent_refund_to as stated, and left last_nonce one higher.
C11_SessionWritten ==
    (last.op = "commit_cpi" /\ last.result = "Ok") =>
        LET entry == last.pre.last_nonce[Req.smart_wallet]
            c == SessionAt(State, Req.cpi_commit)
        IN  /\ Sha256(Req.args.rule_data) = Challenge[3]
            /\ CommitAccountsHash(Req.policy_program, Req.remaining_accounts)
                   = Challenge[4]
            /\ PolicyPassed
            /\ Len(last.trace) = 1
            /\ sessions = last.pre.sessions \cup {c}
            /\ c.owner_wallet = Req.smart_wallet
            /\ c.data_hash = Challenge[5]
            /\ c.accounts_hash = Challenge[6]
            /\ c.authorized_nonce = entry
            /\ c.expires_at = Req.args.expires_at
            /\ c.rent_refund_to = Req.payer
            /\ last_nonce[Req.smart_wallet] = entry + 1

\* C12: no session is created for a wallet and nonce, or at an address, for
\* which one was created before; a re-submitted commit_cpi fails; every live
\* session sits at the address derived from its wallet and authorized_nonce,
\* has authorized_nonce < last_nonce of its wallet, and the live sessions of
\* a wallet have pairwise distinct authorized_nonce.
C12_OncePerNonce ==
    /\ ~last.recreated
    /\ (last.op = "commit_cpi" /\ last.resubmitted) => last.result # "Ok"
    /\ \A c \in sessions :
           /\ c.key = SessionPda(c.owner_wallet, c.authorized_nonce)
           /\ c.authorized_nonce < last_nonce[c.owner_wallet]
           /\ SessionTag(c) \in committed
    /\ \A c, d \in sessions :
           (c.owner_wallet = d.owner_wallet
            /\ c.authorized_nonce = d.authorized_nonce) => c = d

C12_Witness ==
    /\ Cardinality(sessions) = 2
    /\ Cardinality(committed) = 2
    /\ last.op = "commit_cpi"
    /\ last.result = "Ok"
    /\ last.pre.last_nonce["w1"] = 1

-----------------------------------------------------------------------------
(* update_policy *)

Updated == last.op = "update_policy" /\ last.result = "Ok"

DefaultPolicy == last.pre.config.default_policy_program

\* an update_policy built by the client library and submitted once, while
\* the program is not paused, that enrols no device
PlainUpdate ==
    /\ last.op = "update_policy"
    /\ Req.faults = {}
    /\ ~last.resubmitted
    /\ Unpaused
    /\ ~Req.args.new_authenticator.some

\* C13: a successful update_policy has the default policy program as its old
\* or as its new program, and any other pair is refused with
\* NoDefaultPolicyProgram; so no single instruction takes a wallet from one
\* non-default program to another, while A -> default and default -> B each
\* succeed.
C13_DefaultTransition ==
    /\ Updated => \/ Req.old_policy_program = DefaultPolicy
                  \/ Req.new_policy_program = DefaultPolicy
    /\ \A w \in Wallets :
           (last.op # "none" /\ policy_program[w] # last.pre.policy_program[w])
               => /\ Updated
                  /\ w = Req.smart_wallet
                  /\ last.pre.policy_program[w] = Req.old_policy_program
                  /\ policy_program[w] = Req.new_policy_program
                  /\ DefaultPolicy \in {last.pre.policy_program[w],
                                        policy_program[w]}
    /\ (PlainUpdate /\ Req.old_policy_program # Req.new_policy_program)
           => IF DefaultPolicy \in {Req.old_policy_program,
                                    Req.new_policy_program}
              THEN last.result = IF last.pre.last_nonce[Req.smart_wallet] < U64_MAX
                                 THEN "Ok" ELSE "NonceOverflow"
              ELSE last.result = "NoDefaultPolicyProgram"

\* the wallet left policy_a for the default program (it had left the default
\* program for policy_a before), and the direct move to policy_b was refused
C13_Witness ==
    /\ Updated
    /\ last.pre.policy_program["w1"] = "policy_a"
    /\ policy_program["w1"] = "default_policy"

C13_Refused ==
    /\ PlainUpdate
    /\ last.result = "NoDefaultPolicyProgram"
    /\ Req.old_policy_program = "policy_a"
    /\ Req.new_policy_program = "policy_b"

\* the CPIs an update_policy made, in the order it made them
CpiOrder(trace) == [i \in DOMAIN trace |-> trace[i].kind]

C14_InitRejected ==
    /\ last.op = "update_policy"
    /\ Len(last.trace) = 2
    /\ last.trace[1].ok
    /\ ~last.trace[2].ok
    /\ last.result = "PolicyError"

\* a CPI of the last instruction returned an error
CpiErrored == \E i \in DOMAIN last.trace : ~last.trace[i].ok

\* C15: an update_policy that fails, on any of its checks or because the
\* destroy or the init CPI returned an error, returns that error and leaves
\* policy_program, last_nonce and the set of WalletDevice records (and every
\* balance) exactly as they were before it.
C15_FailureKeepsState ==
    last.op = "update_policy"
        => /\ CpiErrored => last.result = "PolicyError"
           /\ last.result # "Ok"
                  => /\ policy_program = last.pre.policy_program
                     /\ last_nonce = last.pre.last_nonce
                     /\ devices = last.pre.devices
                     /\ lamports = last.pre.lamports
                     /\ sessions = last.pre.sessions

\* the init CPI failed after a device had been enrolled and the destroy CPI
\* had succeeded: the device is not there
C15_Witness ==
    /\ last.op = "update_policy"
    /\ last.result = "PolicyError"
    /\ Req.args.new_authenticator.some
    /\ Len(last.trace) = 2
    /\ last.trace[1].ok
    /\ \A d \in devices : d.key # Req.remaining_accounts[1].key
    /\ lamports["payer"] >= DEVICE_RENT

\* what update_policy returns when exactly one thing is wrong with the
\* request, for the conditions of C16; `nonexec` is the error of a program
\* account that is not executable
UpdateErrorOf(F, nonexec) ==
    CASE F = {"pprog_registered"} -> "InvalidProgramAddress"
      [] F \in {{"pprog_unregistered"}, {"nprog_unregistered"}}
             -> "PolicyProgramNotRegistered"
      [] F \in {{"pprog_nonexec"}, {"nprog_nonexec"}} -> nonexec
      [] F = {"nprog_same"} -> "PolicyProgramsIdentical"
      [] F = {"pdata_disc"} -> "InvalidDestroyDiscriminator"
      [] F = {"init_disc"} -> "InvalidInitPolicyDiscriminator"
      [] F \in {{"pdata_byte"}, {"init_byte"}} -> "InvalidInstructionData"
      [] F \in {{"pacct_key"}, {"iacct_key"}} -> "InvalidAccountData"
      [] OTHER -> "any"

UpdateRefusals(nonexec) ==
    (last.op = "update_policy" /\ Unpaused)
        => /\ UpdateErrorOf(Req.faults, nonexec) # "any"
                  => /\ last.result = UpdateErrorOf(Req.faults, nonexec)
                     /\ last.trace = <<>>
           /\ last.trace # <<>>
                  => /\ Req.old_policy_program
                            = last.pre.policy_program[Req.smart_wallet]
                     /\ Executable(Req.old_policy_program)
                     /\ Executable(Req.new_policy_program)
                     /\ InRegistry(last.pre.registry, Req.old_policy_program)
                     /\ InRegistry(last.pre.registry, Req.new_policy_program)
                     /\ Req.old_policy_program # Req.new_policy_program
                     /\ StartsWith8(Req.args.destroy_policy_data,
                                    sighash("global", "destroy"))
                     /\ StartsWith8(Req.args.init_policy_data,
                                    sighash("global", "init_policy"))
                     /\ Sha256(Req.args.destroy_policy_data) = Challenge[3]
                     /\ Sha256(Req.args.init_policy_data) = Challenge[5]
                     /\ last.trace[1].kind = "destroy_cpi"
                     /\ ExecAccountsHash(Req.old_policy_program,
                                         last.trace[1].accounts) = Challenge[4]
                     /\ Len(last.trace) = 2
                            => ExecAccountsHash(Req.new_policy_program,
                                                last.trace[2].accounts)
                                   = Challenge[6]

\* C16 (as stated): update_policy invokes no program unless the old program
\* is the wallet's policy program, both programs are executable and
\* registered, they differ, both discriminators are right and the four hashes
\* equal the challenge's; each failure has the error the statement names,
\* PolicyProgramNotRegistered for a program that is not executable.
C16_Original == UpdateRefusals("PolicyProgramNotRegistered")

\* C16 (amended): the same, except that a program account that is not
\* executable is refused by the executable constraint of the accounts struct,
\* before the handler runs; PolicyProgramNotRegistered is the error of an
\* executable program that is not in the registry.
C16_Refusals == UpdateRefusals("ConstraintExecutable")

C16_Witness ==
    /\ last.op = "update_policy"
    /\ Unpaused
    /\ Req.faults = {"nprog_nonexec"}
    /\ last.result = "ConstraintExecutable"
    /\ last.trace = <<>>

-----------------------------------------------------------------------------
(* device enrolment *)

\* the devices the last instruction created
Enrolled == devices \ last.pre.devices

\* the new_passkey of the signed challenge: InvokePolicyMessage carries one,
\* UpdatePolicyMessage and ExecuteMessage have no such field
SignedPasskey ==
    IF last.op = "invoke_policy" THEN Challenge[5] ELSE NoDevice

\* C17: a device is created only by an invoke_policy or update_policy whose
\* signed challenge carries a new_passkey, and the device created holds that
\* passkey: none is created when the challenge carries none.
C17_SignedEnrolment ==
    (last.op # "none" /\ Enrolled # {})
        => /\ last.op \in {"invoke_policy", "update_policy"}
           /\ last.result = "Ok"
           /\ SignedPasskey.some
           /\ \A d \in Enrolled :
                  /\ d.passkey_pubkey = SignedPasskey.passkey_pubkey
                  /\ d.smart_wallet = Req.smart_wallet

\* an enrolment that reaches the creation of the device: a request as the
\* client library builds it but for the device account and passkey, sent once
ReachesEnrolment ==
    /\ last.op \in {"invoke_policy", "update_policy"}
    /\ Req.args.new_authenticator.some
    /\ Req.faults \subseteq {"newdev_unsigned", "newdev_elsewhere",
                             "newdev_nosigner"}
    /\ ~last.resubmitted
    /\ Unpaused
    /\ last.op = "update_policy"
           => /\ Req.old_policy_program # Req.new_policy_program
              /\ DefaultPolicyTransition(DefaultPolicy, Req.old_policy_program,
                                         Req.new_policy_program)

\* C18: enrolment onto an account that holds data fails with
\* AccountAlreadyInitialized; every WalletDevice sits at the address derived
\* from its wallet and passkey, names that wallet and holds a passkey whose
\* first byte is 0x02 or 0x03; there is at most one device per (wallet,
\* passkey), and a device once created is never changed.
C18_DerivedAddress ==
    /\ (ReachesEnrolment /\ KeyHoldsData(last.pre, Req.remaining_accounts[1].key))
           => last.result = "AccountAlreadyInitialized"
    /\ \A d \in devices :
           /\ d.key = DevicePda(d.smart_wallet, d.passkey_pubkey)
           /\ d.smart_wallet \in Wallets
           /\ d.passkey_pubkey.prefix \in {2, 3}
    /\ \A d, e \in devices :
           (d.smart_wallet = e.smart_wallet
            /\ d.passkey_pubkey = e.passkey_pubkey) => d = e
    /\ last.op # "none" => last.pre.devices \subseteq devices

-----------------------------------------------------------------------------
(* the device behind an authorization *)

\* the public key of the precompile record the instruction points at
RecordKey == Req.ixs[Req.args.verify_instruction_index + 1].data.pubkey

DeviceBinding(commit_passkey, commit_wallet) ==
    /\ (last.op \in AuthorisedOps /\ last.result = "Ok")
           => /\ \E d \in last.pre.devices : d.key = Req.wallet_device
              /\ LET device == DeviceAt(last.pre, Req.wallet_device)
                 IN  /\ device.smart_wallet = Req.smart_wallet
                     /\ device.passkey_pubkey = Req.args.passkey_pubkey
                     /\ device.passkey_pubkey = RecordKey
    /\ (last.op \in AuthorisedOps \ {"commit_cpi"} /\ Unpaused)
           => /\ Req.faults = {"passkey_other"}
                     => last.result = "PasskeyMismatch"
              /\ Req.faults = {"device_other_wallet"}
                     => last.result = "SmartWalletMismatch"
    /\ (last.op = "commit_cpi" /\ Funded)
           => /\ Req.faults = {"passkey_other"} => last.result = commit_passkey
              /\ Req.faults = {"device_other_wallet"}
                     => last.result = commit_wallet

\* C19 (as stated): every successful authorised action on a wallet was
\* verified against a device of that wallet whose passkey is the claimed one
\* and the one of the precompile record; a passkey mismatch yields
\* PasskeyMismatch and a wallet mismatch SmartWalletMismatch.
C19_Original == DeviceBinding("PasskeyMismatch", "SmartWalletMismatch")

\* C19 (amended): the same binding on every success; the two errors are those
\* of execute_transaction, invoke_policy and update_policy, while commit_cpi
\* refuses either mismatch earlier, by the seeds constraint of its device
\* account.
C19_DeviceBinding == DeviceBinding("ConstraintSeeds", "ConstraintSeeds")

\* the device of another wallet, with its own passkey and a valid signature
\* of that passkey, was refused
C19_Witness ==
    /\ last.op = "invoke_policy"
    /\ Unpaused
    /\ Req.faults = {"device_other_wallet"}
    /\ DeviceAt(last.pre, Req.wallet_device).smart_wallet # Req.smart_wallet
    /\ DeviceAt(last.pre, Req.wallet_device).passkey_pubkey = RecordKey
    /\ last.result = "SmartWalletMismatch"

-----------------------------------------------------------------------------
(* the pause switch *)

\* one of the five wallet operations, built by the client library and sent
\* once with a funded fee payer, while Config.is_paused is set
SentWhilePaused ==
    /\ last.op \in AuthorisedOps \cup {"execute_committed"}
    /\ last.pre.config.is_paused
    /\ Req.faults = {}
    /\ ~last.resubmitted
    /\ Funded

\* C20: while the program is paused, execute_transaction, invoke_policy,
\* update_policy, commit_cpi and execute_committed fail with ProgramPaused:
\* no CPI, no transfer of lamports, no session created, no nonce changed.
C20_PausedRefuses ==
    SentWhilePaused
        => /\ last.result = "ProgramPaused"
           /\ last.trace = <<>>
           /\ lamports = last.pre.lamports
           /\ sessions = last.pre.sessions
           /\ last_nonce = last.pre.last_nonce

-----------------------------------------------------------------------------
(* Administration and wallet creation *)

\* #[max_len(32)] of the registry's list, narrowed
RegistryMaxLen == 2

Range(seq) == {seq[i] : i \in DOMAIN seq}

\* instructions/initialize.rs: the accounts after initialize(default) signed
\* by "admin"; no wallet exists yet
initialize(default) ==
    [last_nonce |-> [w \in Wallets |-> 0],
     policy_program |-> [w \in Wallets |-> "none"],
     lamports |-> [a \in {"w1", "w2", "dest", "payer", "other"} |->
                      IF a = "payer" THEN 2 * PayerInit ELSE 0],
     devices |-> {},
     sessions |-> {},
     config |-> [authority |-> "admin", create_smart_wallet_fee |-> 0,
                 execute_fee |-> 0, default_policy_program |-> default,
                 is_paused |-> FALSE],
     registry |-> <<default>>,
     wallet_id |-> [w \in Wallets |-> -1],
     now |-> NOW0]

\* registry.programs.len() >= registry.programs.capacity()
WhitelistFull(len, capacity) == len >= capacity

\* has_one = authority on Config, with authority: Signer
HasOneAuthority(s, r) == r.authority = s.config.authority

\* instructions/admin/register_policy_program.rs; r.env.capacity is the
\* capacity of the deserialized Vec, which the allocator decides
register_policy_program(s, r) ==
    LET program == r.remaining_accounts[1].key
        pushed == Append(s.registry, program)
    IN
    IF ~HasOneAuthority(s, r) THEN Fail("ConstraintHasOne", <<>>) ELSE
    IF r.remaining_accounts = <<>>
    THEN Fail("InvalidRemainingAccounts", <<>>) ELSE
    IF ~Executable(program) THEN Fail("ProgramNotExecutable", <<>>) ELSE
    IF program \in Range(s.registry) THEN Done(s, <<>>) ELSE
    IF WhitelistFull(Len(s.registry), r.env.capacity)
    THEN Fail("WhitelistFull", <<>>) ELSE
    IF Len(pushed) > RegistryMaxLen
    THEN Fail("AccountDidNotSerialize", <<>>)
    ELSE Done([s EXCEPT !.registry = pushed], <<>>)

\* instructions/admin/update_config.rs
update_config(s, r) ==
    LET first == r.remaining_accounts[1]
    IN
    IF ~HasOneAuthority(s, r) THEN Fail("ConstraintHasOne", <<>>) ELSE
    CASE r.param = "CreateWalletFee" ->
             Done([s EXCEPT !.config.create_smart_wallet_fee = r.value], <<>>)
      [] r.param = "ExecuteFee" ->
             Done([s EXCEPT !.config.execute_fee = r.value], <<>>)
      [] r.param = "DefaultPolicyProgram" ->
             IF r.remaining_accounts = <<>>
             THEN Fail("InvalidRemainingAccounts", <<>>) ELSE
             IF ~Executable(first.key)
             THEN Fail("ProgramNotExecutable", <<>>)
             ELSE Done([s EXCEPT !.config.default_policy_program = first.key],
                       <<>>)
      [] r.param = "Admin" ->
             IF r.remaining_accounts = <<>>
             THEN Fail("InvalidRemainingAccounts", <<>>)
             ELSE Done([s EXCEPT !.config.authority = first.key], <<>>)

\* security.rs MAX_CREDENTIAL_ID_SIZE
MAX_CREDENTIAL_ID_SIZE == 256

\* a validation that lets every credential id through
validate_credential_id_Any(len) == "Ok"

\* security.rs validate_credential_id, on the length of the credential id
validate_credential_id(len) ==
    IF len > MAX_CREDENTIAL_ID_SIZE THEN "CredentialIdTooLarge" ELSE
    IF len = 0 THEN "CredentialIdEmpty"
    ELSE "Ok"

\* the wallet id of a new wallet is not zero
ValidWalletId(id) == id # 0

\* the account constraints of CreateSmartWallet, in field order
CreateSmartWalletAccounts(s, r) ==
    IF s.config.default_policy_program \notin Range(s.registry)
    THEN "PolicyProgramNotRegistered" ELSE
    IF r.smart_wallet \in Wallets /\ s.wallet_id[r.smart_wallet] # -1
    THEN "AccountAlreadyInUse" ELSE
    IF r.default_policy_program # s.config.default_policy_program
    THEN "ConstraintAddress" ELSE
    IF ~Executable(r.default_policy_program) THEN "ConstraintExecutable"
    ELSE "Ok"

\* instructions/create_smart_wallet.rs, called from lib.rs with the wallet id
create_smart_wallet(s, r) ==
    LET accounts == CreateSmartWalletAccounts(s, r)
        wallet == r.smart_wallet
        default == s.config.default_policy_program
        fee == s.config.create_smart_wallet_fee
        rent == RENT_EXEMPT_MINIMUM + DEVICE_RENT
        funded == [s.lamports EXCEPT ![r.signer] = @ - rent,
                                     ![wallet] = @ + RENT_EXEMPT_MINIMUM]
        init == Event("init_policy", default, r.rule_data,
                      r.remaining_accounts, r.env.init_ok)
        charged == IF fee > 0 /\ ~r.is_pay_for_user
                   THEN transfer_sol_from_pda(funded, wallet, r.signer, fee)
                   ELSE [result |-> "Ok", lamports |-> funded]
    IN
    IF accounts # "Ok" THEN Fail(accounts, <<>>) ELSE
    IF validate_credential_id(r.credential_id) # "Ok"
    THEN Fail(validate_credential_id(r.credential_id), <<>>) ELSE
    IF validate_rule_data(r.rule_data) # "Ok"
    THEN Fail(validate_rule_data(r.rule_data), <<>>) ELSE
    IF validate_remaining_accounts(r.remaining_accounts) # "Ok"
    THEN Fail(validate_remaining_accounts(r.remaining_accounts), <<>>) ELSE
    IF r.passkey_pubkey.prefix \notin {2, 3}
    THEN Fail("InvalidPasskeyFormat", <<>>) ELSE
    IF ~ValidWalletId(r.wallet_id) THEN Fail("InvalidWalletId", <<>>) ELSE
    IF s.lamports[r.signer] < rent
    THEN Fail("InsufficientFundsForRent", <<>>) ELSE
    IF execute_cpi(r.env.init_ok, "PolicyError") # "Ok"
    THEN Fail(execute_cpi(r.env.init_ok, "PolicyError"), <<init>>) ELSE
    IF fee > 0 /\ ~r.is_pay_for_user
       /\ funded[wallet] < fee + RENT_EXEMPT_MINIMUM
    THEN Fail("InsufficientBalanceForFee", <<init>>) ELSE
    IF charged.result # "Ok" THEN Fail(charged.result, <<init>>)
    ELSE Done([s EXCEPT !.lamports = charged.lamports,
                        !.wallet_id[wallet] = r.wallet_id,
                        !.policy_program[wallet] = default,
                        !.last_nonce[wallet] = 0,
                        !.devices = @ \cup
                            {WalletDevice(wallet, r.passkey_pubkey)}],
              IF fee > 0 /\ ~r.is_pay_for_user
              THEN <<init, Event("fee_transfer", SYSTEM_PROGRAM_ID, <<fee>>,
                                 <<Acct(wallet, FALSE, TRUE),
                                   Acct(r.signer, TRUE, TRUE)>>, TRUE)>>
              ELSE <<init>>)

\* the programs an administrator names
AdminPrograms ==
    {"default_policy", "policy_a", "policy_b", PROGRAM_ID, "not_a_program"}

RegisterRequest(signer, program, capacity) ==
    [op |-> "register_policy_program",
     authority |-> signer,
     remaining_accounts |-> <<Acct(program, FALSE, FALSE)>>,
     env |-> [capacity |-> capacity],
     ixs |-> <<>>,
     faults |-> {}]

ConfigRequest(signer, param, value, key) ==
    [op |-> "update_config",
     authority |-> signer,
     param |-> param,
     value |-> value,
     remaining_accounts |-> <<Acct(key, FALSE, FALSE)>>,
     ixs |-> <<>>,
     faults |-> {}]

\* a CPI into this program finds no instruction for the policy's data
CalleeAnswers(program) == program # PROGRAM_ID

CreateRequest(s, id, passkey, credential_id, pay) ==
    [op |-> "create_smart_wallet",
     signer |-> "payer",
     wallet_id |-> id,
     smart_wallet |-> WalletPda(id),
     passkey_pubkey |-> passkey,
     credential_id |-> credential_id,
     rule_data |-> <<"init_policy", "b0">>,
     is_pay_for_user |-> pay,
     default_policy_program |-> s.config.default_policy_program,
     remaining_accounts |-> <<Acct(DevicePda(WalletPda(id), passkey),
                                   TRUE, FALSE)>>,
     env |-> [init_ok |-> CalleeAnswers(s.config.default_policy_program)],
     ixs |-> <<>>,
     faults |-> {}]

\* the whole transaction: every account the instruction wrote, or none
AdminRuntime(r, out) ==
    LET post == IF PrecompilesPass(r.ixs) /\ out.result = "Ok"
                THEN out.post ELSE State
    IN  /\ Commit(r, out, FALSE)
        /\ config' = post.config
        /\ registry' = post.registry
        /\ wallet_id' = post.wallet_id
        /\ UNCHANGED <<now, pf>>

InitAdmin ==
    \E default \in {"default_policy", PROGRAM_ID} :
        LET s == initialize(default)
        IN  /\ last_nonce = s.last_nonce
            /\ policy_program = s.policy_program
            /\ lamports = s.lamports
            /\ devices = s.devices
            /\ sessions = s.sessions
            /\ config = s.config
            /\ registry = s.registry
            /\ wallet_id = s.wallet_id
            /\ now = s.now
            /\ last = NoCall
            /\ used = {}
            /\ performed = {}
            /\ committed = {}
            /\ tampered = 0
            /\ pf = [kind |-> "idle"]

RegisterPolicyProgram ==
    \E signer \in {"admin", "other"}, program \in AdminPrograms,
       spare \in {0, 1} :
        /\ Settled
        /\ LET r == RegisterRequest(signer, program, Len(registry) + spare)
           IN  AdminRuntime(r, register_policy_program(State, r))

UpdateDefaultPolicy ==
    \E signer \in {"admin", "other"},
       program \in {"default_policy", "policy_a", "not_a_program"} :
        /\ Settled
        /\ LET r == ConfigRequest(signer, "DefaultPolicyProgram", 0, program)
           IN  AdminRuntime(r, update_config(State, r))

UpdateAdmin ==
    \E key \in {"admin", "other"} :
        /\ Settled
        /\ key # config.authority
        /\ LET r == ConfigRequest(config.authority, "Admin", 0, key)
           IN  AdminRuntime(r, update_config(State, r))

CreateSmartWallet ==
    \E id \in {0, 1, 2}, passkey \in {K1, Passkey(4, "k1")},
       credential_id \in {0, 1, MAX_CREDENTIAL_ID_SIZE,
                          MAX_CREDENTIAL_ID_SIZE + 1} :
        /\ Settled
        /\ (passkey # K1 \/ id = 0) => credential_id = 1
        /\ LET r == CreateRequest(State, id, passkey, credential_id, FALSE)
           IN  AdminRuntime(r, create_smart_wallet(State, r))

\* the wallet w1 exists and K1 is its device
Operable == wallet_id["w1"] # -1 /\ WalletDevice("w1", K1) \in devices

AdminExecute ==
    \E intent \in {Invoke, Reenter} :
        /\ Settled
        /\ Operable
        /\ LET q == ExecRequest(State, "w1", intent, {})
               r == [q EXCEPT !.env.policy_ok =
                                  CalleeAnswers(q.policy_program)]
           IN  AdminRuntime(r, execute_transaction(State, r))

AdminUpdatePolicy ==
    \E target \in Range(registry) \cup {"policy_b"} :
        /\ Settled
        /\ Operable
        /\ LET q == UpdateRequest(State, "w1", target, FALSE, {})
               r == [q EXCEPT
                       !.env.destroy_ok = CalleeAnswers(q.old_policy_program),
                       !.env.init_ok = CalleeAnswers(q.new_policy_program)]
           IN  AdminRuntime(r, update_policy(State, r))

AdminCommit ==
    /\ Settled
    /\ Operable
    /\ LET q == CommitRequest(State, "w1", Reenter, now, {})
           r == [q EXCEPT !.env.policy_ok = CalleeAnswers(q.policy_program)]
       IN  AdminRuntime(r, commit_cpi(State, r))

AdminRedeem ==
    \E c \in sessions :
        /\ Settled
        /\ LET r == RedeemRequest(c, Reenter, {})
           IN  AdminRuntime(r, execute_committed(State, r))

NextAdmin ==
    \/ RegisterPolicyProgram
    \/ UpdateDefaultPolicy
    \/ UpdateAdmin
    \/ CreateSmartWallet
    \/ AdminExecute
    \/ AdminUpdatePolicy
    \/ AdminCommit
    \/ AdminRedeem

SpecAdmin == InitAdmin /\ [][NextAdmin]_vars

-----------------------------------------------------------------------------
(* reentrancy *)

\* the CPIs of the last instruction that were issued to this program
SelfCpis == {i \in DOMAIN last.trace : last.trace[i].program = PROGRAM_ID}

\* C21: no instruction issues a CPI whose target is this program: the policy
\* CPI, the user CPI of execute_transaction and the CPI of execute_committed
\* leave no invocation of PROGRAM_ID in the trace, whatever the administrator
\* registered and whatever the wallets did before.
C21_NoSelfCpi == SelfCpis = {}

\* the user CPI of execute_transaction and of a redeemed session that names
\* this program is refused with ReentrancyDetected before it is invoked
C21_UserCpiRefused ==
    (/\ last.op \in {"execute_transaction", "execute_committed"}
     /\ Req.cpi_program = PROGRAM_ID
     /\ last.result # "Ok")
        => \A i \in DOMAIN last.trace : last.trace[i].kind # "user_cpi"

\* update_policy invoked init_policy on this program
C21_SelfInit ==
    /\ last.op = "update_policy"
    /\ Req.new_policy_program = PROGRAM_ID
    /\ SelfCpis # {}

-----------------------------------------------------------------------------
(* the policy gate *)

\* the policy CPIs the last instruction issued
PolicyCpis == {i \in DOMAIN last.trace : last.trace[i].kind = "policy_cpi"}

\* the policy program of the last instruction is the wallet's, registered and
\* executable, in the state the instruction ran in
PolicyAdmitted ==
    /\ Executable(Req.policy_program)
    /\ Req.policy_program \in Range(last.pre.registry)
    /\ Req.policy_program = last.pre.policy_program[Req.smart_wallet]

\* C22: execute_transaction, invoke_policy and commit_cpi invoke a policy
\* program only if it is executable, registered and the wallet's policy
\* program at the time of the call, and in execute_transaction and commit_cpi
\* only with policy data that begins with the check_policy discriminator.
C22_PolicyGate ==
    (/\ last.op \in {"execute_transaction", "invoke_policy", "commit_cpi"}
     /\ PolicyCpis # {})
        => /\ PolicyAdmitted
           /\ last.op # "invoke_policy"
                  => \A i \in PolicyCpis :
                         StartsWith8(last.trace[i].data,
                                     sighash("global", "check_policy"))

\* the part of C22 about the program invoked
C22_Admitted ==
    (/\ last.op \in {"execute_transaction", "invoke_policy", "commit_cpi"}
     /\ PolicyCpis # {})
        => PolicyAdmitted

\* a policy program that is not executable is refused by the handler's own
\* check
C22_NotExecutable ==
    (/\ last.op \in {"execute_transaction", "invoke_policy", "commit_cpi"}
     /\ Req.faults = {"pprog_nonexec"})
        => last.result = "ProgramNotExecutable"

-----------------------------------------------------------------------------
(* Fees and native transfers *)

\* the intents a wallet signs where fees matter
FeeIntents ==
    {Transfer("amt0"), Transfer("amt1"), Transfer("amt2"),
     TransferTo("amt1", "w1"), Invoke}

SetExecuteFee ==
    \E value \in {0, 1} :
        /\ Settled
        /\ value # config.execute_fee
        /\ LET r == ConfigRequest("admin", "ExecuteFee", value, "admin")
           IN  AdminRuntime(r, update_config(State, r))

FeeExecute ==
    \E intent \in FeeIntents :
        /\ Settled
        /\ LET r == ExecRequest(State, "w1", intent, {})
           IN  Runtime(r, execute_transaction(State, r), FALSE)

FeeInvoke ==
    /\ Settled
    /\ LET r == InvokeRequest(State, "w1", FALSE, {})
       IN  Runtime(r, invoke_policy(State, r), FALSE)

FeeUpdate ==
    /\ Settled
    /\ LET r == UpdateRequest(State, "w1", OtherPolicy(policy_program["w1"]),
                              FALSE, {})
       IN  Runtime(r, update_policy(State, r), FALSE)

FeeCommit ==
    \E intent \in FeeIntents :
        /\ Settled
        /\ LET r == CommitRequest(State, "w1", intent, now, {})
           IN  Runtime(r, commit_cpi(State, r), FALSE)

FeeRedeem ==
    \E c \in sessions, intent \in FeeIntents :
        /\ Settled
        /\ Sha256(CpiDataOf(intent)) = c.data_hash
        /\ CommittedAccountsHash(CpiProgramOf(intent),
                                 CpiAccountsFor(c.owner_wallet, intent))
               = c.accounts_hash
        /\ LET r == RedeemRequest(c, intent, {})
           IN  Runtime(r, execute_committed(State, r), FALSE)

NextFee ==
    \/ SetExecuteFee
    \/ FeeExecute
    \/ FeeInvoke
    \/ FeeUpdate
    \/ FeeCommit
    \/ FeeRedeem

SpecFee == Init /\ [][NextFee]_vars

\* the native transfers the last instruction performed
Transfers == {i \in DOMAIN last.trace : last.trace[i].kind = "transfer"}

\* amount and destination of a performed transfer: the LE u64 at
\* cpi_data[4..12] and the second CPI account
AmountOf(event) == U64FromLeBytes(event.data[2])
DestinationOf(event) == event.accounts[2].key

\* C23: a successful execute_transaction that performs a native transfer of
\* amount a from a wallet whose last_nonce is n adds a to the destination,
\* takes a + config.execute_fee from the wallet and leaves last_nonce = n + 1.
C23_TransferEffect ==
    (/\ last.op = "execute_transaction"
     /\ last.result = "Ok"
     /\ Transfers # {})
        => \A i \in Transfers :
               LET a == AmountOf(last.trace[i])
                   dest == DestinationOf(last.trace[i])
                   w == Req.smart_wallet
               IN  /\ lamports[dest] = last.pre.lamports[dest] + a
                   /\ lamports[w] = last.pre.lamports[w]
                                        - (a + last.pre.config.execute_fee)
                   /\ last_nonce[w] = last.pre.last_nonce[w] + 1

\* what the transfer of execute_transaction does move: the amount, no fee
C23_AmountOnly ==
    (/\ last.op = "execute_transaction"
     /\ last.result = "Ok"
     /\ Transfers # {})
        => \A i \in Transfers :
               LET a == AmountOf(last.trace[i])
                   dest == DestinationOf(last.trace[i])
                   w == Req.smart_wallet
               IN  /\ lamports[dest] = last.pre.lamports[dest] + a
                   /\ lamports[w] = last.pre.lamports[w] - a
                   /\ last_nonce[w] = last.pre.last_nonce[w] + 1

\* the last instruction asked for a native transfer: the system program with
\* data that begins with the transfer discriminator
TransferAsked ==
    /\ last.op \in {"execute_transaction", "execute_committed"}
    /\ Req.cpi_program = SYSTEM_PROGRAM_ID
    /\ Len(Req.args.cpi_data) >= 2
    /\ Req.args.cpi_data[1] = SOL_TRANSFER_DISCRIMINATOR

AmountAsked == U64FromLeBytes(Req.args.cpi_data[2])

\* C24: an execute_transaction whose native transfer has the amount 0 is
\* rejected: it fails, moves no lamports and does not consume the nonce.
C24_ZeroRejected ==
    (/\ TransferAsked
     /\ last.op = "execute_transaction"
     /\ AmountAsked = 0)
        => /\ last.result # "Ok"
           /\ lamports = last.pre.lamports
           /\ last_nonce = last.pre.last_nonce

\* a transfer of 0 lamports went through and took the nonce
C24_ZeroAccepted ==
    /\ TransferAsked
    /\ last.op = "execute_transaction"
    /\ AmountAsked = 0
    /\ last.result = "Ok"
    /\ last_nonce[Req.smart_wallet] = last.pre.last_nonce[Req.smart_wallet] + 1

\* the sum a + execute_fee + rent-exempt minimum, in unbounded integers
TotalNeeded(s, a) == a + s.config.execute_fee + RENT_EXEMPT_MINIMUM

\* C25: a native transfer of amount a, in execute_transaction and in
\* execute_committed, is performed only if the wallet holds at least
\* a + execute_fee + rent-exempt minimum, a sum that does not overflow, and
\* the destination is not the wallet; otherwise the instruction fails and no
\* lamports move; after a transfer the wallet still holds at least
\* execute_fee + rent-exempt minimum.
C25_TransferGuard ==
    TransferAsked
        => LET w == Req.smart_wallet
               pre == last.pre
           IN  /\ \A i \in Transfers :
                      LET a == AmountOf(last.trace[i])
                      IN  /\ TotalNeeded(pre, a) <= U64_MAX
                          /\ pre.lamports[w] >= TotalNeeded(pre, a)
                          /\ DestinationOf(last.trace[i]) # w
                          /\ lamports[w] >= pre.config.execute_fee
                                                + RENT_EXEMPT_MINIMUM
               /\ last.result # "Ok" => lamports = pre.lamports
               /\ (/\ last.result = "Ok"
                   /\ Transfers = {})
                      => /\ last.op = "execute_committed"
                         /\ lamports[w] = pre.lamports[w]

\* a transfer that the sum's overflow stopped
C25_Overflow ==
    /\ TransferAsked
    /\ last.result = "IntegerOverflow"
    /\ lamports = last.pre.lamports

\* a transfer that the balance stopped, one that the destination stopped, and
\* one performed, in both handlers
C25_Short ==
    /\ TransferAsked
    /\ last.result = "InsufficientLamports"
    /\ last.pre.lamports[Req.smart_wallet]
           < TotalNeeded(last.pre, AmountAsked)

C25_ToItself ==
    /\ TransferAsked
    /\ last.op = "execute_committed"
    /\ Req.remaining_accounts[2].key = Req.smart_wallet
    /\ last.result = "InvalidAccountData"

C25_Witness ==
    /\ TransferAsked
    /\ last.op = "execute_committed"
    /\ last.result = "Ok"
    /\ Transfers # {}
    /\ AmountAsked = 1
    /\ lamports[Req.smart_wallet] = RENT_EXEMPT_MINIMUM

\* what the last instruction took from the wallet besides a transfer's amount
FeePaid ==
    LET w == Req.smart_wallet
        moved == IF Transfers = {} THEN 0
                 ELSE AmountOf(last.trace[CHOOSE i \in Transfers : TRUE])
    IN  last.pre.lamports[w] - lamports[w] - moved

\* C26: a successful execute_transaction, invoke_policy, update_policy or
\* commit_cpi under execute_fee = f > 0 takes exactly f from the wallet and
\* leaves it at or above the rent-exempt minimum; with f = 0 no fee moves.
C26_FeeDebited ==
    (/\ last.op \in AuthorisedOps
     /\ last.result = "Ok")
        => /\ FeePaid = last.pre.config.execute_fee
           /\ lamports[Req.smart_wallet] >= RENT_EXEMPT_MINIMUM

\* what the four handlers do: no fee leaves the wallet, whatever execute_fee
C26_NoFeeMoved ==
    (/\ last.op \in AuthorisedOps
     /\ last.result = "Ok")
        => /\ FeePaid = 0
           /\ lamports[Req.smart_wallet] >= RENT_EXEMPT_MINIMUM

\* an invoke_policy that succeeded under a fee the wallet could not pay
C26_Unpaid ==
    /\ last.op = "invoke_policy"
    /\ last.result = "Ok"
    /\ last.pre.config.execute_fee = 1
    /\ last.pre.lamports[Req.smart_wallet]
           < last.pre.config.execute_fee + RENT_EXEMPT_MINIMUM

-----------------------------------------------------------------------------
(* The accounts binding of the handlers, as a function *)

\* longest account list hashed
MaxAccounts == 2

HashedMetas ==
    {Acct(k, s, w) : k \in {"w1", "dest"}, s \in BOOLEAN, w \in BOOLEAN}

HashedLists ==
    UNION {[1..n -> HashedMetas] : n \in 0..MaxAccounts}

\* the list with the is_writable flag of its i-th account flipped
FlipWritable(accts, i) ==
    [accts EXCEPT ![i].is_writable = ~accts[i].is_writable]

InitHash ==
    /\ InitAccounts
    /\ pf \in {[kind |-> "hash_input", program |-> program, accts |-> accts,
                flip |-> flip] :
                  program \in {"default_policy", SYSTEM_PROGRAM_ID},
                  accts \in HashedLists \ {<<>>}, flip \in {0}}

\* each handler's accounts hash of the list and of the list with one
\* is_writable flag flipped
HashAccounts ==
    \E i \in 1..Len(pf.accts) :
        /\ pf.kind = "hash_input"
        /\ pf' = [kind |-> "hashed", program |-> pf.program,
                  accts |-> pf.accts, flip |-> i,
                  execute_transaction |->
                      ExecAccountsHash(pf.program, pf.accts),
                  commit_cpi |-> CommitAccountsHash(pf.program, pf.accts),
                  execute_committed |->
                      CommittedAccountsHash(pf.program, pf.accts),
                  flipped |->
                      [execute_transaction |->
                           ExecAccountsHash(pf.program,
                                            FlipWritable(pf.accts, i)),
                       commit_cpi |->
                           CommitAccountsHash(pf.program,
                                              FlipWritable(pf.accts, i)),
                       execute_committed |->
                           CommittedAccountsHash(pf.program,
                                                 FlipWritable(pf.accts, i))]]
        /\ UNCHANGED <<last_nonce, policy_program, lamports, devices, sessions,
                       config, registry, wallet_id, now, last, used, performed,
                       committed, tampered>>

NextHash == HashAccounts

SpecHash == InitHash /\ [][NextHash]_vars

\* SHA-256(program_id || per account: pubkey || is_writable || is_signer)
RECURSIVE MetaBytesOfBinding(_)
MetaBytesOfBinding(accts) ==
    IF accts = <<>> THEN <<>>
    ELSE <<Head(accts).key, Flag(Head(accts).is_writable),
           Flag(Head(accts).is_signer)>>
         \o MetaBytesOfBinding(Tail(accts))

\* C27: the accounts binding of every handler is one function, SHA-256 over
\* the program id followed, per account in order, by the pubkey, one byte
\* is_writable and one byte is_signer: a hash one handler accepts every
\* handler accepts, and flipping one is_writable flag changes every handler's
\* hash.
C27_OneBinding ==
    pf.kind = "hashed"
        => /\ pf.execute_transaction
                  = Sha256(<<pf.program>> \o MetaBytesOfBinding(pf.accts))
           /\ pf.commit_cpi = pf.execute_transaction
           /\ pf.execute_committed = pf.execute_transaction
           /\ pf.flipped.execute_transaction # pf.execute_transaction
           /\ pf.flipped.commit_cpi # pf.commit_cpi
           /\ pf.flipped.execute_committed # pf.execute_committed

\* flipping is_writable is seen by execute_transaction and by commit_cpi
C27_FlipSeen ==
    pf.kind = "hashed"
        => /\ pf.flipped.execute_transaction # pf.execute_transaction
           /\ pf.flipped.commit_cpi # pf.commit_cpi

\* flipping is_writable is seen by execute_committed as well
C27_FlipMissed ==
    pf.kind = "hashed"
        => pf.flipped.execute_committed # pf.execute_committed

-----------------------------------------------------------------------------
(* wallet creation *)

\* the accounts of wallets and devices are as the last instruction found them
NothingCreated ==
    /\ wallet_id = last.pre.wallet_id
    /\ devices = last.pre.devices
    /\ policy_program = last.pre.policy_program
    /\ last_nonce = last.pre.last_nonce
    /\ lamports = last.pre.lamports

C28_Taken ==
    /\ last.op = "create_smart_wallet"
    /\ Req.wallet_id # 0
    /\ last.pre.wallet_id[Req.smart_wallet] = Req.wallet_id
    /\ last.result = "AccountAlreadyInUse"

-----------------------------------------------------------------------------
(* wallets and the registry *)

\* the wallets that exist
Created == {w \in Wallets : wallet_id[w] # -1}

C29_DefaultUnregistered ==
    /\ last.op = "create_smart_wallet"
    /\ last.pre.config.default_policy_program \notin Range(last.pre.registry)
    /\ last.result = "PolicyProgramNotRegistered"

-----------------------------------------------------------------------------
(* the registry *)

\* the candidate of the last register_policy_program
Candidate == Req.remaining_accounts[1].key

\* the candidate is a program the registry does not hold, offered by the
\* authority
NewCandidate ==
    /\ last.op = "register_policy_program"
    /\ Req.authority = last.pre.config.authority
    /\ Executable(Candidate)
    /\ Candidate \notin Range(last.pre.registry)

\* the registry only grows at its end, holds no program twice and at most
\* RegistryMaxLen programs; register_policy_program succeeds only for the
\* authority, appends a new executable program, leaves the registry as it is
\* for a registered one and refuses a program that is not executable
C30_AppendOnly ==
    /\ Len(registry) <= RegistryMaxLen
    /\ \A i, j \in DOMAIN registry : registry[i] = registry[j] => i = j
    /\ last.op # "none"
           => /\ Len(last.pre.registry) <= Len(registry)
              /\ SubSeq(registry, 1, Len(last.pre.registry))
                     = last.pre.registry
    /\ last.op = "register_policy_program"
           => /\ last.result = "Ok"
                     => /\ Req.authority = last.pre.config.authority
                        /\ Executable(Candidate)
                        /\ registry = IF Candidate \in Range(last.pre.registry)
                                      THEN last.pre.registry
                                      ELSE Append(last.pre.registry, Candidate)
              /\ (/\ Req.authority = last.pre.config.authority
                  /\ ~Executable(Candidate))
                     => last.result = "ProgramNotExecutable"
              /\ (/\ Req.authority = last.pre.config.authority
                  /\ Candidate \in Range(last.pre.registry))
                     => last.result = "Ok"

\* C30: register_policy_program succeeds only with the config authority as
\* signer; it appends an executable program that is not registered, returns
\* OK without change for a registered one, rejects one that is not executable
\* (ProgramNotExecutable) and never removes or reorders; the registry never
\* holds a program twice nor more than the maximum; a new program is accepted
\* whenever fewer than the maximum are registered, and rejected with
\* WhitelistFull when the registry holds the maximum.
C30_Registry ==
    /\ C30_AppendOnly
    /\ NewCandidate
           => last.result = IF Len(last.pre.registry) < RegistryMaxLen
                            THEN "Ok" ELSE "WhitelistFull"

\* a new program refused with WhitelistFull by a registry that has room
C30_FullWithRoom ==
    /\ NewCandidate
    /\ Len(last.pre.registry) < RegistryMaxLen
    /\ Req.env.capacity = Len(last.pre.registry)
    /\ last.result = "WhitelistFull"

-----------------------------------------------------------------------------
(* order of validation, invocation and writes *)

\* the errors of argument checks, hash bindings, discriminators and program
\* checks
ValidationErrors ==
    {"InvalidInstructionData", "InvalidAccountData", "CpiDataTooLarge",
     "CpiDataMissing", "PolicyDataTooLarge", "RuleDataTooLarge",
     "InvalidCheckPolicyDiscriminator", "InvalidCheckRuleDiscriminator",
     "InvalidDestroyDiscriminator", "InvalidInitPolicyDiscriminator",
     "ProgramNotExecutable", "PolicyProgramNotRegistered",
     "InvalidProgramAddress", "AccountSliceOutOfBounds",
     "InsufficientPolicyAccounts", "TooManyRemainingAccounts",
     "InvalidPasskeyFormat", "AccountAlreadyInitialized"}

\* C31: in execute_transaction, invoke_policy, update_policy and commit_cpi
\* every validation completes before the first external program is invoked
\* and before the first write: an instruction that a validation refuses has
\* invoked no program, and no CPI of update_policy runs with the wallet's
\* policy_program already assigned.
C31_ValidatedFirst ==
    last.op \in AuthorisedOps
        => /\ last.result \in ValidationErrors => last.trace = <<>>
           /\ last.op = "update_policy"
                  => \A i \in DOMAIN last.trace :
                         last.trace[i].smart_wallet_data
                             = last.pre.policy_program[Req.smart_wallet]

\* the first half of C31 alone
C31_NoCpiBeforeValidation ==
    (/\ last.op \in AuthorisedOps
     /\ last.result \in ValidationErrors)
        => last.trace = <<>>

\* what holds instead: only execute_transaction validates after a CPI, and
\* only its CPI half, after the policy CPI returned OK
C31_PolicyCpiOnly ==
    (/\ last.op \in AuthorisedOps
     /\ last.result \in ValidationErrors
     /\ last.trace # <<>>)
        => /\ last.op = "execute_transaction"
           /\ Len(last.trace) = 1
           /\ last.trace[1].kind = "policy_cpi"
           /\ last.trace[1].ok

-----------------------------------------------------------------------------
(* redemption and the session *)

\* the last instruction was an execute_committed on a session that exists,
\* with the refund account the session names
Redemption ==
    /\ last.op = "execute_committed"
    /\ ExecuteCommittedAccounts(last.pre, Req) = "Ok"

\* the session is gone and its lamports went to rent_refund_to
ClosedAndRefunded(c) ==
    /\ sessions = last.pre.sessions \ {c}
    /\ lamports[c.rent_refund_to]
           = last.pre.lamports[c.rent_refund_to] + c.lamports

\* C32 (as stated): every execute_committed on a live session ends with the
\* session closed and its rent refunded, whether the CPI or transfer was
\* performed, skipped or failed.
C32_Original ==
    Redemption => ClosedAndRefunded(SessionAt(last.pre, Req.cpi_commit))

\* C32 (amended): an execute_committed on a live session that returns OK,
\* having performed the CPI or transfer or having skipped it, ends with the
\* session closed and its rent refunded; one whose CPI or transfer fails
\* returns that error and leaves the session, every balance and the nonce as
\* they were.
C32_ClosedUnlessFailed ==
    Redemption
        => LET c == SessionAt(last.pre, Req.cpi_commit)
           IN  /\ last.result = "Ok" => ClosedAndRefunded(c)
               /\ last.result # "Ok"
                      => /\ c \in sessions
                         /\ sessions = last.pre.sessions
                         /\ lamports = last.pre.lamports
                         /\ last_nonce = last.pre.last_nonce
                         /\ last.pre.now <= c.expires_at
                         /\ Sha256(Req.args.cpi_data) = c.data_hash
                         /\ CommittedAccountsHash(Req.cpi_program,
                                                  Req.remaining_accounts)
                                = c.accounts_hash

\* a redemption whose CPI returned an error: the session is still there
C32_Witness ==
    /\ Redemption
    /\ last.result = "CpiError"
    /\ SessionAt(last.pre, Req.cpi_commit) \in sessions

-----------------------------------------------------------------------------
(* the last nonce *)

\* the CPIs and the transfer of the last authorised action were all made and
\* all returned OK: only the nonce increment was left
Completed ==
    /\ last.op \in AuthorisedOps
    /\ Len(last.trace) = IF last.op \in {"execute_transaction", "update_policy"}
                         THEN 2 ELSE 1
    /\ \A i \in DOMAIN last.trace : last.trace[i].ok

\* C33: at last_nonce = 2^64 - 1 every authorised action fails, with
\* NonceOverflow once everything else has passed, and last_nonce stays
\* 2^64 - 1; no instruction ever makes a last_nonce smaller.
C33_NoWrap ==
    /\ \A w \in Wallets : last_nonce[w] \in 0..U64_MAX
    /\ last.op # "none"
           => \A w \in Wallets : last_nonce[w] >= last.pre.last_nonce[w]
    /\ (/\ last.op \in AuthorisedOps
        /\ last.pre.last_nonce[Req.smart_wallet] = U64_MAX)
           => /\ last.result # "Ok"
              /\ last_nonce[Req.smart_wallet] = U64_MAX
              /\ Completed => last.result = "NonceOverflow"
    /\ (/\ last.op \in AuthorisedOps
        /\ last.result = "NonceOverflow")
           => last.pre.last_nonce[Req.smart_wallet] = U64_MAX

\* an update_policy stopped by the nonce at its maximum
C33_Witness ==
    /\ last.op = "update_policy"
    /\ Completed
    /\ last.pre.last_nonce[Req.smart_wallet] = U64_MAX
    /\ last.result = "NonceOverflow"
    /\ last_nonce[Req.smart_wallet] = U64_MAX

-----------------------------------------------------------------------------
(* Splitting the remaining accounts *)

\* request r with only its first `keep` remaining accounts and the split
\* index `split`; the signed challenge is left as it was
Resplit(r, keep, split) ==
    [r EXCEPT !.remaining_accounts = SubSeq(@, 1, keep),
              !.args = Merge(@, [split_index |-> split])]

SplitExecute ==
    \E intent \in {Transfer("amt1"), Invoke} :
        /\ Settled
        /\ LET r0 == ExecRequest(State, "w1", intent, {})
           IN  \E keep \in 0..Len(r0.remaining_accounts),
                  split \in 0..(Len(r0.remaining_accounts) + 1) :
                   LET r == Resplit(r0, keep, split)
                   IN  Runtime(r, execute_transaction(State, r), FALSE)

SplitUpdate ==
    \E enrol \in BOOLEAN :
        /\ Settled
        /\ LET r0 == UpdateRequest(State, "w1",
                                   OtherPolicy(policy_program["w1"]), enrol, {})
           IN  \E keep \in 0..Len(r0.remaining_accounts),
                  split \in 0..(Len(r0.remaining_accounts) + 1) :
                   LET r == Resplit(r0, keep, split)
                   IN  Runtime(r, update_policy(State, r), FALSE)

SplitInvoke ==
    \E enrol \in BOOLEAN :
        /\ Settled
        /\ LET r0 == InvokeRequest(State, "w1", enrol, {})
           IN  \E keep \in 0..Len(r0.remaining_accounts) :
                   LET r == [r0 EXCEPT !.remaining_accounts =
                                           SubSeq(@, 1, keep)]
                   IN  Runtime(r, invoke_policy(State, r), FALSE)

NextSplit ==
    \/ SplitExecute
    \/ SplitUpdate
    \/ SplitInvoke

SpecSplit == Init /\ [][NextSplit]_vars

\* the remaining accounts of the last request that are there to be split:
\* all of them, less the one reserved for a new device
Splittable ==
    IF last.op \in {"update_policy", "invoke_policy"}
       /\ Req.args.new_authenticator.some
    THEN SubSeqFrom(Req.remaining_accounts, 2)
    ELSE Req.remaining_accounts

Reserved ==
    IF last.op \in {"update_policy", "invoke_policy"}
       /\ Req.args.new_authenticator.some
    THEN 1 ELSE 0

\* C34: a split index over the accounts there are to split fails with
\* AccountSliceOutOfBounds and no instruction aborts on a slice out of range,
\* the reserved account of a new device absent or not; otherwise the first
\* split_index accounts are the policy (destroy) slice and the rest the CPI
\* (init) slice, and execute_transaction refuses an empty policy slice.
C34_SplitChecked ==
    /\ last.result # "SliceIndexPanic"
    /\ last.op \in {"execute_transaction", "update_policy"}
           => /\ (/\ Len(Req.remaining_accounts) >= Reserved
                  /\ Req.args.split_index > Len(Splittable))
                     => last.result = "AccountSliceOutOfBounds"
              /\ Len(last.trace) = 2
                     => /\ last.trace[1].accounts =
                               SubSeq(Splittable, 1, Req.args.split_index)
                        /\ last.op = "update_policy" \/ Req.intent.kind # "transfer"
                               => last.trace[2].accounts =
                                      SubSeqFrom(Splittable,
                                                 Req.args.split_index + 1)
    /\ (/\ last.op = "execute_transaction"
        /\ Req.args.split_index = 0)
           => last.result = "InsufficientPolicyAccounts"

\* the part of it that holds: without a new device, a split index over the
\* accounts is refused with AccountSliceOutOfBounds and the slices are as told
C34_WithoutNewDevice ==
    Reserved = 0 => C34_SplitChecked

C34_Refused ==
    /\ last.op = "update_policy"
    /\ Reserved = 0
    /\ last.result = "AccountSliceOutOfBounds"

C34_Aborted ==
    /\ last.op = "update_policy"
    /\ Req.remaining_accounts # <<>>
    /\ last.result = "SliceIndexPanic"

-----------------------------------------------------------------------------
(* The order of the authorization checks *)

\* what a submitted authorization can get wrong, one field for each step
AuthInputs ==
    [kind : {"auth_input"},
     dev : {DevicePda("w1", K1), DevicePda("w2", K2)},
     passkey : {K1, K2},
     index : {0, 2},
     cdj : {"ok", "bad_utf8", "bad_json", "no_challenge", "bad_base64"},
     salt : {0, 1},
     short : BOOLEAN,
     drift : {0 - MAX_TIMESTAMP_DRIFT_SECONDS - 1, 0,
              MAX_TIMESTAMP_DRIFT_SECONDS + 1},
     nonce_off : {0, 1},
     result : {"none"}]

\* an execute_transaction on w1 carrying the input p: signed by the key of
\* the device account passed, over the clientDataJSON passed
AuthRequest(s, p) ==
    LET r0 == ExecRequest(s, "w1", Invoke, {})
        whole == [r0.args.client_data_json_raw.challenge EXCEPT
                      ![1] = s.last_nonce["w1"] + p.nonce_off,
                      ![2] = s.now + p.drift]
        challenge == IF p.short THEN SubSeq(whole, 1, 2) ELSE whole
        cdj == ClientDataJson(p.cdj, challenge)
        message == SignedMessage(AUTH_DATA, cdj)
        signer == DeviceAt(s, p.dev).passkey_pubkey
    IN  [r0 EXCEPT
           !.wallet_device = p.dev,
           !.ixs = <<SecpIx(signer, Sign(signer.body, message, p.salt),
                            message),
                     EngineIx>>,
           !.args = Merge(@, [passkey_pubkey |-> p.passkey,
                              signature |-> Sign(signer.body, message, 0),
                              client_data_json_raw |-> cdj,
                              verify_instruction_index |-> p.index])]

InitAuth ==
    /\ InitAccounts
    /\ pf \in AuthInputs

\* verify_authorization applied to the input
VerifyAuthorization ==
    /\ pf.kind = "auth_input"
    /\ LET r == AuthRequest(State, pf)
       IN  pf' = [pf EXCEPT
                    !.kind = "auth_verified",
                    !.result = verify_authorization("Execute", r.ixs,
                                   DeviceAt(State, r.wallet_device),
                                   r.smart_wallet, r.args,
                                   last_nonce[r.smart_wallet], now)]
    /\ UNCHANGED <<last_nonce, policy_program, lamports, devices, sessions,
                   config, registry, wallet_id, now, last, used, performed,
                   committed, tampered>>

\* the whole transaction submitted with the input
SubmitAuthorization ==
    /\ pf.kind = "auth_input"
    /\ LET r == AuthRequest(State, pf)
       IN  Commit(r, execute_transaction(State, r), FALSE)
    /\ pf' = [pf EXCEPT !.kind = "auth_submitted"]
    /\ UNCHANGED <<config, registry, wallet_id, now>>

NextAuth ==
    \/ VerifyAuthorization
    \/ SubmitAuthorization

SpecAuth == InitAuth /\ [][NextAuth]_vars

\* the error of the first step, in the order told, that the input p fails
FirstFailure(p) ==
    LET device == DeviceAt(State, p.dev)
    IN  IF device.passkey_pubkey # p.passkey THEN "PasskeyMismatch"
        ELSE IF device.smart_wallet # "w1" THEN "SmartWalletMismatch"
        ELSE IF p.index # 0 THEN "InvalidArgument"
        ELSE IF p.cdj = "bad_utf8" THEN "ClientDataInvalidUtf8"
        ELSE IF p.cdj = "bad_json" THEN "ClientDataJsonParseError"
        ELSE IF p.cdj = "no_challenge" THEN "ChallengeMissing"
        ELSE IF p.cdj = "bad_base64" THEN "ChallengeBase64DecodeError"
        ELSE IF p.salt # 0 THEN "Secp256r1DataMismatch"
        ELSE IF p.short THEN "ChallengeDeserializationError"
        ELSE IF p.drift < 0 THEN "TimestampTooOld"
        ELSE IF p.drift > 0 THEN "TimestampTooNew"
        ELSE IF p.nonce_off # 0 THEN "NonceMismatch"
        ELSE "Ok"

\* C35: verify_authorization reports the error of the first failing step in
\* the order passkey, wallet, instruction load, clientDataJSON parsing,
\* precompile record, challenge deserialization, timestamp window, nonce; and
\* a transaction whose authorization fails changes no wallet, device or
\* session state.
C35_FirstFailure ==
    /\ pf.kind = "auth_verified" => pf.result = FirstFailure(pf)
    /\ (pf.kind = "auth_submitted" /\ FirstFailure(pf) # "Ok")
           => /\ last.result # "Ok"
              /\ last_nonce = last.pre.last_nonce
              /\ policy_program = last.pre.policy_program
              /\ lamports = last.pre.lamports
              /\ devices = last.pre.devices
              /\ sessions = last.pre.sessions
    /\ (pf.kind = "auth_submitted" /\ FirstFailure(pf) = "Ok")
           => last.result = "Ok"

\* an input of another wallet's device that is wrong at four later steps too
C35_Witness ==
    /\ pf.kind = "auth_verified"
    /\ pf.result = "SmartWalletMismatch"
    /\ pf.index # 0
    /\ pf.cdj = "bad_json"
    /\ pf.salt # 0
    /\ pf.nonce_off # 0

-----------------------------------------------------------------------------
(* What the signed challenge settles *)

\* the last request with another expires_at: the same challenge, signature
\* and accounts
WithExpiry(e) == [Req EXCEPT !.args = Merge(@, [expires_at |-> e])]

\* C36: the expires_at a commit_cpi stores is settled by the signed
\* challenge: the same commit_cpi submitted from the same state with the same
\* challenge and signature and any other expires_at argument, if it is
\* accepted, stores the same expires_at.
C36_ExpirySigned ==
    (last.op = "commit_cpi" /\ last.result = "Ok")
        => \A e \in {last.pre.now - 1, last.pre.now, last.pre.now + 1} :
               LET other == commit_cpi(last.pre, WithExpiry(e))
               IN  other.result = "Ok"
                       => SessionAt(other.post, Req.cpi_commit).expires_at
                              = SessionAt(State, Req.cpi_commit).expires_at

\* what the challenge does settle: the owner, both hashes and the nonce
C36_HashesSigned ==
    (last.op = "commit_cpi" /\ last.result = "Ok")
        => \A e \in {last.pre.now - 1, last.pre.now, last.pre.now + 1} :
               LET other == commit_cpi(last.pre, WithExpiry(e))
                   c == SessionAt(other.post, Req.cpi_commit)
                   d == SessionAt(State, Req.cpi_commit)
               IN  /\ other.result = "Ok"
                   /\ c.expires_at = e
                   /\ [c EXCEPT !.expires_at = 0] = [d EXCEPT !.expires_at = 0]

\* the four families of authorised actions
Families == AuthorisedOps

\* a CPI whose data hashes to a value that starts with the byte 0
InvokeZero == [kind |-> "cpi", amount |-> "none", payload |-> "z0"]

\* a correctly signed request of family f on w1
SignedFor(s, f, intent) ==
    CASE f = "execute_transaction" -> ExecRequest(s, "w1", intent, {})
      [] f = "commit_cpi" -> CommitRequest(s, "w1", intent, s.now, {})
      [] f = "invoke_policy" -> InvokeRequest(s, "w1", FALSE, {})
      [] f = "update_policy" ->
             UpdateRequest(s, "w1", OtherPolicy(s.policy_program["w1"]),
                           FALSE, {})

\* the data and accounts that the challenge of request r commits to
Material(r) ==
    CASE r.op = "execute_transaction" ->
             [data1 |-> r.args.policy_data,
              accts1 |-> SubSeq(r.remaining_accounts, 1, r.args.split_index),
              data2 |-> r.args.cpi_data,
              accts2 |-> SubSeqFrom(r.remaining_accounts,
                                    r.args.split_index + 1),
              program2 |-> r.cpi_program]
      [] r.op = "commit_cpi" ->
             [data1 |-> r.args.rule_data,
              accts1 |-> r.remaining_accounts,
              data2 |-> CpiDataOf(r.intent),
              accts2 |-> CpiAccountsFor(r.smart_wallet, r.intent),
              program2 |-> r.args.cpi_program]
      [] r.op = "invoke_policy" ->
             [data1 |-> r.args.policy_data,
              accts1 |-> r.remaining_accounts,
              data2 |-> <<>>,
              accts2 |-> <<>>,
              program2 |-> "target_program"]
      [] r.op = "update_policy" ->
             [data1 |-> r.args.destroy_policy_data,
              accts1 |-> SubSeq(r.remaining_accounts, 1, r.args.split_index),
              data2 |-> r.args.init_policy_data,
              accts2 |-> SubSeqFrom(r.remaining_accounts,
                                    r.args.split_index + 1),
              program2 |-> r.new_policy_program]

\* the request of family f that carries the challenge, signature and
\* precompile instruction of src, with the data and accounts src was signed
\* for put where f's handler looks for them
Cross(s, src, f, intent) ==
    LET m == Material(src)
        own == SignedFor(s, f, intent)
        envelope == [signature |-> src.args.signature,
                     client_data_json_raw |-> src.args.client_data_json_raw,
                     authenticator_data_raw |-> src.args.authenticator_data_raw,
                     passkey_pubkey |-> src.args.passkey_pubkey,
                     verify_instruction_index |->
                         src.args.verify_instruction_index]
        signed == Merge(own, [ixs |-> src.ixs, signed_for |-> src.op])
    IN  CASE f = "execute_transaction" ->
                 Merge(signed,
                       [cpi_program |-> m.program2,
                        remaining_accounts |-> m.accts1 \o m.accts2,
                        args |-> Merge(own.args,
                                       Merge(envelope,
                                             [split_index |-> Len(m.accts1),
                                              policy_data |-> m.data1,
                                              cpi_data |-> m.data2]))])
          [] f = "commit_cpi" ->
                 Merge(signed,
                       [remaining_accounts |-> m.accts1,
                        args |-> Merge(own.args,
                                       Merge(envelope,
                                             [rule_data |-> m.data1,
                                              cpi_program |-> m.program2]))])
          [] f = "invoke_policy" ->
                 Merge(signed,
                       [remaining_accounts |-> m.accts1,
                        args |-> Merge(own.args,
                                       Merge(envelope,
                                             [policy_data |-> m.data1]))])
          [] f = "update_policy" ->
                 Merge(signed,
                       [remaining_accounts |-> m.accts1 \o m.accts2,
                        args |-> Merge(own.args,
                                       Merge(envelope,
                                             [split_index |-> Len(m.accts1),
                                              destroy_policy_data |-> m.data1,
                                              init_policy_data |-> m.data2]))])

CrossExecute ==
    \E g \in Families, intent \in {Invoke, InvokeZero} :
        /\ Settled
        /\ LET r == Cross(State, SignedFor(State, g, intent),
                          "execute_transaction", intent)
           IN  Runtime(r, execute_transaction(State, r), FALSE)

CrossCommit ==
    \E g \in Families, intent \in {Invoke, InvokeZero} :
        /\ Settled
        /\ LET r == Cross(State, SignedFor(State, g, intent),
                          "commit_cpi", intent)
           IN  Runtime(r, commit_cpi(State, r), FALSE)

CrossInvoke ==
    \E g \in Families, intent \in {Invoke, InvokeZero} :
        /\ Settled
        /\ LET r == Cross(State, SignedFor(State, g, intent),
                          "invoke_policy", intent)
           IN  Runtime(r, invoke_policy(State, r), FALSE)

CrossUpdate ==
    \E g \in Families, intent \in {Invoke, InvokeZero} :
        /\ Settled
        /\ LET r == Cross(State, SignedFor(State, g, intent),
                          "update_policy", intent)
           IN  Runtime(r, update_policy(State, r), FALSE)

NextCross ==
    \/ CrossExecute
    \/ CrossCommit
    \/ CrossInvoke
    \/ CrossUpdate

SpecCross == Init /\ [][NextCross]_vars

\* C37: a challenge and signature made for one family of actions is accepted
\* by no handler of another family.
C37_OneFamily ==
    last.op \in Families => (Req.signed_for # last.op => last.result # "Ok")

\* what does hold: the only handler that takes another family's challenge is
\* invoke_policy, so no execute_transaction approval becomes a session
C37_NoDeferral ==
    (last.op \in Families /\ Req.signed_for # last.op /\ last.result = "Ok")
        => /\ last.op = "invoke_policy"
           /\ Req.signed_for = "execute_transaction"
           /\ HashFirstByte(Req.args.client_data_json_raw.challenge[5]) = 0

C37_OwnFamily ==
    /\ last.op = "commit_cpi"
    /\ Req.signed_for = last.op
    /\ last.result = "Ok"

-----------------------------------------------------------------------------
(* Who signs the CPIs *)

\* utils.rs create_cpi_instruction: the metas of the instruction issued; the
\* signers are the PDA of the seeds and the outer signers let through
create_cpi_instruction(accounts, pda_pubkey, allowed_signers) ==
    [i \in DOMAIN accounts |->
        [key |-> accounts[i].key,
         is_signer |-> accounts[i].key = pda_pubkey
                       \/ accounts[i].key \in allowed_signers,
         is_writable |-> accounts[i].is_writable]]

PolicyKinds == {"policy_cpi", "destroy_cpi", "init_cpi", "init_policy"}

\* the PDA whose seeds the handler of request r passes to execute_cpi for an
\* event of kind `kind`: get_pda_signer for the policy CPIs, the wallet's
\* seeds for the user CPI and the transfers
PdaSignerOf(s, r, kind) ==
    IF kind \in PolicyKinds
    THEN DevicePda(r.smart_wallet,
                   IF r.op = "create_smart_wallet" THEN r.passkey_pubkey
                   ELSE r.args.passkey_pubkey)
    ELSE r.smart_wallet

\* the outer signers each call of execute_cpi lets through
AllowedSignersOf(r, kind) ==
    IF \/ r.op = "invoke_policy" /\ kind = "policy_cpi"
       \/ r.op = "update_policy" /\ kind = "init_cpi"
       \/ r.op = "execute_transaction" /\ kind = "user_cpi"
    THEN {r.payer}
    ELSE {}

\* the metas of the i-th CPI of the last instruction
IssuedMetas(i) ==
    create_cpi_instruction(last.trace[i].accounts,
                           PdaSignerOf(last.pre, Req, last.trace[i].kind),
                           AllowedSignersOf(Req, last.trace[i].kind))

\* the wallet of the last request holds the PDA of its own seeds
WalletSeedsFit ==
    WalletPda(last.pre.wallet_id[Req.smart_wallet]) = Req.smart_wallet

\* (a): the last instruction is an execute_transaction authorised by a
\* passkey of the wallet, and its check_policy CPI returned OK before event i
AuthorisedExecute(i) ==
    /\ last.op = "execute_transaction"
    /\ WalletSeedsFit
    /\ verify_authorization("Execute", Req.ixs,
                            DeviceAt(last.pre, Req.wallet_device),
                            Req.smart_wallet, Req.args,
                            last.pre.last_nonce[Req.smart_wallet],
                            last.pre.now) = "Ok"
    /\ \E j \in 1..(i - 1) :
           /\ last.trace[j].kind = "policy_cpi"
           /\ last.trace[j].ok
           /\ last.trace[j].program = last.pre.policy_program[Req.smart_wallet]
           /\ StartsWith8(last.trace[j].data, sighash("global", "check_policy"))

\* (b): the last instruction redeems a session of the wallet that a
\* commit_cpi created
AuthorisedRedemption ==
    /\ last.op = "execute_committed"
    /\ WalletSeedsFit
    /\ \E c \in last.pre.sessions :
           /\ c.key = Req.cpi_commit
           /\ c.owner_wallet = Req.smart_wallet
           /\ SessionTag(c) \in committed

\* (c): the last instruction created the wallet and took the creation fee
\* out of it for the signer that created it
CreationFee(i) ==
    /\ last.op = "create_smart_wallet"
    /\ last.trace[i].kind = "fee_transfer"
    /\ last.trace[i].data = <<last.pre.config.create_smart_wallet_fee>>
    /\ last.trace[i].accounts[1].key = Req.smart_wallet
    /\ last.trace[i].accounts[2].key = Req.signer
    /\ last.pre.wallet_id[Req.smart_wallet] = -1

\* the policy CPIs of execute_transaction and commit_cpi are signed by the
\* device PDA alone, and no policy CPI is signed by the wallet PDA
PolicySigners(i) ==
    \A k \in DOMAIN IssuedMetas(i) :
        IssuedMetas(i)[k].is_signer
            => /\ IssuedMetas(i)[k].key # Req.smart_wallet
               /\ last.op \in {"execute_transaction", "commit_cpi"}
                      => IssuedMetas(i)[k].key =
                             DevicePda(Req.smart_wallet,
                                       Req.args.passkey_pubkey)

\* sessions are only created by an authorised commit_cpi whose policy CPI
\* returned OK
SessionsCommitted ==
    \A c \in sessions \ last.pre.sessions :
        /\ last.op = "commit_cpi"
        /\ c.owner_wallet = Req.smart_wallet
        /\ verify_authorization("Execute", Req.ixs,
               DeviceAt(last.pre, Req.wallet_device),
               Req.smart_wallet, Req.args,
               last.pre.last_nonce[Req.smart_wallet],
               last.pre.now) = "Ok"
        /\ Len(last.trace) = 1
        /\ last.trace[1].kind = "policy_cpi"
        /\ last.trace[1].ok

C38_Executed ==
    /\ last.op = "execute_transaction"
    /\ last.result = "Ok"
    /\ Len(last.trace) = 2
    /\ last.trace[2].kind = "user_cpi"
    /\ AuthorisedExecute(2)

C38_FeeTaken ==
    /\ last.op = "create_smart_wallet"
    /\ last.result = "Ok"
    /\ Len(last.trace) = 2
    /\ CreationFee(2)

-----------------------------------------------------------------------------
(* Creation with a fee *)

InitCreate ==
    \E funded \in {0, 1} :
        LET s == initialize("default_policy")
        IN  /\ last_nonce = s.last_nonce
            /\ policy_program = s.policy_program
            /\ lamports = [s.lamports EXCEPT !["w1"] = funded]
            /\ devices = s.devices
            /\ sessions = s.sessions
            /\ config = s.config
            /\ registry = s.registry
            /\ wallet_id = s.wallet_id
            /\ now = s.now
            /\ last = NoCall
            /\ used = {}
            /\ performed = {}
            /\ committed = {}
            /\ tampered = 0
            /\ pf = [kind |-> "idle"]

SetCreateFee ==
    \E value \in {0, 1} :
        /\ Settled
        /\ value # config.create_smart_wallet_fee
        /\ LET r == ConfigRequest("admin", "CreateWalletFee", value, "admin")
           IN  AdminRuntime(r, update_config(State, r))

CreateWithFee ==
    \E pay \in BOOLEAN :
        /\ Settled
        /\ LET r == CreateRequest(State, 1, K1, 1, pay)
           IN  AdminRuntime(r, create_smart_wallet(State, r))

CreateExecute ==
    \E intent \in {Transfer("amt1"), Invoke},
       F \in {{}, {"policy_rejects"}} :
        /\ Settled
        /\ Operable
        /\ LET r == ExecRequest(State, "w1", intent, F)
           IN  Runtime(r, execute_transaction(State, r), FALSE)

CreateCommit ==
    \E intent \in {Transfer("amt1"), Invoke},
       F \in {{}, {"policy_rejects"}} :
        /\ Settled
        /\ Operable
        /\ LET r == CommitRequest(State, "w1", intent, now, F)
           IN  Runtime(r, commit_cpi(State, r), FALSE)

CreateRedeem ==
    \E c \in sessions, intent \in {Transfer("amt1"), Invoke} :
        /\ Settled
        /\ LET r == RedeemRequest(c, intent, {})
           IN  Runtime(r, execute_committed(State, r), FALSE)

NextCreate ==
    \/ SetCreateFee
    \/ CreateWithFee
    \/ CreateExecute
    \/ CreateCommit
    \/ CreateRedeem

SpecCreate == InitCreate /\ [][NextCreate]_vars

-----------------------------------------------------------------------------
(* Lamports: utils.rs transfer_sol_from_pda, the fee collection of          *)
(* instructions/execute.rs and `close = commit_refund` of execute_committed *)

RECURSIVE SessionLamports(_)
SessionLamports(S) ==
    IF S = {} THEN 0
    ELSE LET c == CHOOSE x \in S : TRUE
         IN  c.lamports + SessionLamports(S \ {c})

\* the lamports of the wallets, the destination, the payer, the refund
\* account and the open session accounts
FiveSum(s) ==
    s.lamports["w1"] + s.lamports["w2"] + s.lamports["dest"]
    + s.lamports["payer"] + s.lamports["other"] + SessionLamports(s.sessions)

\* the same with the rent the device accounts hold
Held(s) == FiveSum(s) + DEVICE_RENT * Cardinality(s.devices)

\* the native transfers of the last instruction, when it was not rolled back
MovedBy(i) ==
    /\ last.result = "Ok"
    /\ last.trace[i].kind = "transfer"
    /\ last.trace[i].ok

\* every transfer of the last instruction took its amount from a wallet
\* that held it and gave it to the destination
DebitCovered ==
    \A i \in DOMAIN last.trace :
        MovedBy(i) =>
            LET amount == U64FromLeBytes(last.trace[i].data[2])
                from == last.trace[i].accounts[1].key
                to == last.trace[i].accounts[2].key
            IN  /\ last.pre.lamports[from] >= amount
                /\ lamports[from] = last.pre.lamports[from] - amount
                /\ lamports[to] = last.pre.lamports[to] + amount

\* no balance is below zero or above what there is to hold
NoWrap ==
    \A a \in DOMAIN lamports : lamports[a] \in 0..Held(State)

C39_Moved ==
    /\ last.result = "Ok"
    /\ \E i \in DOMAIN last.trace :
           MovedBy(i) /\ U64FromLeBytes(last.trace[i].data[2]) > 0

\* a redemption that paid the session's rent to the refund account
C39_Refunded ==
    /\ last.op = "execute_committed"
    /\ last.result = "Ok"
    /\ SessionLamports(sessions) < SessionLamports(last.pre.sessions)

\* a transfer refused because the wallet is short
C39_Short == last.result = "InsufficientLamports"

-----------------------------------------------------------------------------
(* The policy entrypoints: invoke_policy.rs against update_policy.rs *)

\* the entrypoints a policy exposes, by the discriminator its data begins with
Lifecycle == {"destroy", "init_policy"}
Entrypoints == {"add_device", "check_policy"} \cup Lifecycle

\* an invoke_policy on wallet w signed for the policy data `data`
InvokeEntry(s, w, data, F) ==
    LET policy == s.policy_program[w]
        challenge ==
            <<NonceOf(s, w, F), TimestampOf(s, F), Sha256(data),
              ExecAccountsHash(policy, PolicyAccountsOf(w)), NoDevice>>
        env == Envelope(w, challenge, F)
    IN  [op |-> "invoke_policy",
         payer |-> "payer",
         smart_wallet |-> w,
         wallet_device |-> env.wallet_device,
         policy_program |-> policy,
         ixs |-> env.ixs,
         remaining_accounts |-> PolicyAccountsOf(w),
         args |-> Merge(env.args,
                        [policy_data |-> data,
                         new_authenticator |-> NoDevice]),
         env |-> [policy_ok |-> "policy_rejects" \notin F],
         faults |-> F]

EntryInvoke ==
    \E entry \in Entrypoints, F \in {{}, {"policy_rejects"}} :
        /\ Settled
        /\ NonceFaultsFit(State, "w1", F)
        /\ LET r == InvokeEntry(State, "w1", <<entry, "b0">>, F)
           IN  Runtime(r, invoke_policy(State, r), FALSE)

EntryUpdate ==
    \E target \in {OtherPolicy(policy_program["w1"]), "policy_b"},
       F \in {{}, {"pdata_disc"}, {"init_disc"}, {"policy_rejects"},
              {"init_rejects"}} :
        /\ Settled
        /\ NonceFaultsFit(State, "w1", F)
        /\ LET r == UpdateRequest(State, "w1", target, FALSE, F)
           IN  Runtime(r, update_policy(State, r), FALSE)

EntryExecute ==
    \E intent \in {Transfer("amt1"), Invoke},
       F \in {{}, {"pdata_disc"}, {"policy_rejects"}} :
        /\ Settled
        /\ NonceFaultsFit(State, "w1", F)
        /\ LET r == ExecRequest(State, "w1", intent, F)
           IN  Runtime(r, execute_transaction(State, r), FALSE)

NextEntry ==
    \/ EntryInvoke
    \/ EntryUpdate
    \/ EntryExecute

SpecEntry == Init /\ [][NextEntry]_vars

\* the policy CPIs the last instruction issued and kept
PolicyCall(i) ==
    /\ last.result = "Ok"
    /\ last.trace[i].kind \in PolicyKinds
    /\ last.trace[i].ok
    /\ last.trace[i].data # <<>>

\* the programs holding policy state for the wallet once the CPIs of `trace`
\* ran, from the set `held` before: destroy drops it, init_policy makes it
RECURSIVE InitialisedAfter(_, _)
InitialisedAfter(trace, held) ==
    IF trace = <<>> THEN held
    ELSE LET e == Head(trace)
             entry == IF e.kind \in PolicyKinds /\ e.ok /\ e.data # <<>>
                      THEN e.data[1] ELSE "none"
         IN  InitialisedAfter(Tail(trace),
                 IF entry = "destroy" THEN held \ {e.program}
                 ELSE IF entry = "init_policy" THEN held \cup {e.program}
                 ELSE held)

\* destroy and init_policy are called by update_policy alone, destroy first
\* and init_policy right after it, but for the init_policy of a creation
LifecycleInUpdate ==
    \A i \in DOMAIN last.trace :
        PolicyCall(i) /\ last.trace[i].data[1] \in Lifecycle =>
            \/ /\ last.op = "update_policy"
               /\ Len(last.trace) = 2
               /\ last.trace[1].data[1] = "destroy"
               /\ last.trace[2].data[1] = "init_policy"
            \/ /\ last.op = "create_smart_wallet"
               /\ i = 1
               /\ last.trace[i].data[1] = "init_policy"

\* invoke_policy reaches no lifecycle entrypoint and not check_policy
InvokeKeepsOut ==
    last.op = "invoke_policy" =>
        \A i \in DOMAIN last.trace :
            PolicyCall(i) =>
                last.trace[i].data[1] \notin Lifecycle \cup {"check_policy"}

\* a wallet whose policy program held its policy state before the
\* instruction has a policy program that holds it after
StaysInitialised ==
    last.result = "Ok" /\ last.op \in AuthorisedOps =>
        policy_program[last.req.smart_wallet] \in
            InitialisedAfter(last.trace,
                {last.pre.policy_program[last.req.smart_wallet]})

\* C40: destroy and init_policy are invoked only inside update_policy, as a
\* destroy-then-init pair; invoke_policy cannot call destroy, init_policy or
\* check_policy of the wallet's policy program; the wallet's policy program
\* always holds initialised policy state.
C40_LifecycleOnlyInUpdate ==
    /\ LifecycleInUpdate
    /\ InvokeKeepsOut
    /\ StaysInitialised

\* the same of every instruction but invoke_policy
C40_OutsideInvoke ==
    last.op # "invoke_policy" => C40_LifecycleOnlyInUpdate

\* invoke_policy ran the destroy entrypoint of the wallet's policy program
C40_Destroyed ==
    /\ last.op = "invoke_policy"
    /\ last.result = "Ok"
    /\ \E i \in DOMAIN last.trace :
           /\ PolicyCall(i)
           /\ last.trace[i].data[1] = "destroy"
           /\ last.trace[i].program = policy_program[last.req.smart_wallet]

\* update_policy ran its pair
C40_Swapped ==
    /\ last.op = "update_policy"
    /\ last.result = "Ok"
    /\ policy_program["w1"] # last.pre.policy_program["w1"]

====
